---- MODULE Spec2Model ----
(***************************************************************************)
(* Document chunking (app/study_agent/chunk_strategy.py) and filtered      *)
(* context retrieval (app/study_agent/rag_utils.py).                       *)
(*                                                                         *)
(* A Python str is a sequence of one-character strings.  The chunking      *)
(* functions are pure; each is an operator computed the way the code       *)
(* computes it, and each call is one action that stores what the call      *)
(* returned.                                                               *)
(***************************************************************************)
EXTENDS Integers, Sequences, FiniteSets, TLC

VARIABLES
    content,        \* document_content handed to the chunker
    fn,             \* the DocumentChunker method that was called ("none" before the call)
    strategy,       \* strategy argument of chunk_educational_content
    kwargs,         \* **kwargs of chunk_educational_content
    max_size,       \* max_chunk_size argument of a direct call
    overlap,        \* overlap_size argument of a direct call
    max_n,          \* max_sentences / max_paragraphs argument of a direct call
    chunks,         \* the list the call returned
    splits,         \* per heading chunk: the run of _split_large_chunk on it
    retriever,      \* RAGManager.retriever: "none", "ok" or "raises"
    index_docs,     \* what retriever.get_relevant_documents returns, in its order
    board_filter, class_filter, subject_filter,
    top_k,
    docs,           \* the list retrieve_context_by_board returned
    outcome,        \* "idle", "returned" or "raised" (an exception reached the caller)
    index_queried,  \* whether get_relevant_documents was called
    context,        \* the string get_context_string_with_board returned
    advanced_docs,  \* <<>> or <<l>>, l the list retrieve_context_advanced_filter returned
    chunker,        \* the fields of the DocumentChunker the threads share
    calls,          \* per thread: the arguments of its chunk_educational_content call
    pc,             \* per thread: where its call stands
    locals,         \* per frame: the parameters and local variables of the call
    results,        \* per thread: what its call returned
    interleaved,    \* a thread has taken a step while another call was in progress
    chunk_infos,    \* <<>> or <<l>>, l the list get_chunk_info returned for chunks
    agent,          \* the fields of the EducationalTutorAgent
    state,          \* the AgentState of the run of process_request
    node,           \* the node the workflow runs next ("idle" before, "END" after)
    visited,        \* the nodes that have run, in order
    returned,       \* <<>> or <<v>>, v the value process_request returned
    at_breakpoint   \* the run stands at a pdb.set_trace() of a utility

chunkVars == <<content, fn, strategy, kwargs, max_size, overlap, max_n, chunks, splits,
               chunk_infos>>
ragVars == <<retriever, index_docs, board_filter, class_filter, subject_filter,
             top_k, docs, outcome, index_queried, context, advanced_docs>>
vars == <<content, fn, strategy, kwargs, max_size, overlap, max_n, chunks, splits,
          retriever, index_docs, board_filter, class_filter, subject_filter,
          top_k, docs, outcome, index_queried, context, advanced_docs,
          chunker, calls, pc, locals, results, interleaved, chunk_infos,
          agent, state, node, visited, returned, at_breakpoint>>

concVars == <<chunker, calls, pc, locals, results, interleaved>>
tutorVars == <<agent, state, node, visited, returned, at_breakpoint>>

-----------------------------------------------------------------------------
(* Bounds of the model *)

MaxLen == 5
MaxChunkSize == 3
MaxOverlap == 2
MaxGroup == 2
MaxDocs == 2
MaxTopK == 2

\* characters the texts are made of
Chars == {"#", "a", " ", "\n", "."}

RECURSIVE TextsOfLen(_)
TextsOfLen(n) ==
    IF n = 0 THEN {<<>>}
    ELSE {Append(t, c) : t \in TextsOfLen(n - 1), c \in Chars}

\* n times the character c
Repeat(c, n) == [i \in 1..n |-> c]

\* longer documents: a long word after a short line, six sentences, mixed
\* sentence punctuation, four paragraphs, two headed sections, and two lines
\* of 600 characters (more than the default max_chunk_size together)
SampleTexts ==
    {<<"a", "\n", "a", "a", " ", "a">>,
     <<"a", ".", "a", ".", "a", ".", "a", ".", "a", ".", "a", ".">>,
     <<"a", "!", " ", "a", "?", "a">>,
     <<"a", "\n", "\n", "a", "\n", "\n", "a", "\n", "\n", "a">>,
     <<"#", " ", "a", "\n", "a", "\n", "#", "#", " ", "a", "\n", "a">>,
     <<"a", " ", "a", "\n", "#", " ", "a", "\n", "a", "\n", "#", "#", " ", "a">>,
     Repeat("a", 600) \o <<"\n">> \o Repeat("a", 600)}

Texts == UNION {TextsOfLen(n) : n \in 0..MaxLen} \cup SampleTexts

-----------------------------------------------------------------------------
(* Python str primitives *)

Whitespace == {" ", "\n"}

RECURSIVE lstrip(_)
lstrip(s) ==
    IF s = <<>> THEN s
    ELSE IF Head(s) \in Whitespace THEN lstrip(Tail(s)) ELSE s

RECURSIVE rstrip(_)
rstrip(s) ==
    IF s = <<>> THEN s
    ELSE IF s[Len(s)] \in Whitespace THEN rstrip(SubSeq(s, 1, Len(s) - 1)) ELSE s

strip(s) == rstrip(lstrip(s))

startswith(s, p) == Len(p) <= Len(s) /\ SubSeq(s, 1, Len(p)) = p

\* s[-n:] for 0 < n
LastChars(s, n) == IF n >= Len(s) THEN s ELSE SubSeq(s, Len(s) - n + 1, Len(s))

MatchAt(s, sep, i) ==
    /\ i + Len(sep) - 1 <= Len(s)
    /\ SubSeq(s, i, i + Len(sep) - 1) = sep

\* the least element of a non-empty set of positions
Least(S) == CHOOSE k \in S : \A j \in S : k <= j

\* position of the first occurrence of sep at or after i, 0 when there is none
NextMatch(s, sep, i) ==
    LET M == {k \in i..Len(s) : MatchAt(s, sep, k)}
    IN  IF M = {} THEN 0 ELSE Least(M)

RECURSIVE SplitFrom(_, _, _)
SplitFrom(s, sep, i) ==
    LET k == NextMatch(s, sep, i)
    IN  IF k = 0 THEN <<SubSeq(s, i, Len(s))>>
        ELSE <<SubSeq(s, i, k - 1)>> \o SplitFrom(s, sep, k + Len(sep))

\* s.split(sep)
split(s, sep) == SplitFrom(s, sep, 1)

RECURSIVE join(_, _)
join(sep, parts) ==
    IF parts = <<>> THEN <<>>
    ELSE IF Len(parts) = 1 THEN parts[1]
    ELSE parts[1] \o sep \o join(sep, Tail(parts))

\* positions where a maximal run of non-whitespace characters starts and ends
WordStarts(s) ==
    {i \in 1..Len(s) : s[i] \notin Whitespace /\ (i = 1 \/ s[i - 1] \in Whitespace)}

WordEnds(s) ==
    {j \in 1..Len(s) : s[j] \notin Whitespace /\ (j = Len(s) \/ s[j + 1] \in Whitespace)}

\* set(s.split())
WordSet(s) ==
    LET ends == WordEnds(s)
    IN  {SubSeq(s, i, Least({j \in ends : j >= i})) : i \in WordStarts(s)}

NL == <<"\n">>
NLNL == <<"\n", "\n">>
SP == <<" ">>

-----------------------------------------------------------------------------
(* DocumentChunker.chunk_by_headings *)

\* mutant: the length test of line 53 is forgotten
IsHeadingLine_NoLength(line) ==
    startswith(strip(line), <<"#">>)

\* the test of line 53
IsHeadingLine(line) ==
    LET line_stripped == strip(line)
    IN  startswith(line_stripped, <<"#">>) /\ Len(line_stripped) > 1

\* mutant: the accumulation is closed without the strip of lines 56 and 69
CloseChunk_NoStrip(chunkList, current_chunk) ==
    IF current_chunk = <<>> THEN chunkList
    ELSE LET chunk_content == join(NL, current_chunk)
         IN  IF chunk_content # <<>> THEN Append(chunkList, chunk_content) ELSE chunkList

\* lines 55-59 and 68-71: close the accumulation
CloseChunk(chunkList, current_chunk) ==
    IF current_chunk = <<>> THEN chunkList
    ELSE LET chunk_content == strip(join(NL, current_chunk))
         IN  IF chunk_content # <<>> THEN Append(chunkList, chunk_content) ELSE chunkList

\* mutant: the text accumulated before the first heading line is discarded
\* when that heading line is met
RECURSIVE HeadingLoop_DropOpen(_, _, _, _)
HeadingLoop_DropOpen(lines, i, chunkList, current_chunk) ==
    IF i > Len(lines) THEN CloseChunk(chunkList, current_chunk)
    ELSE IF IsHeadingLine(lines[i])
         THEN HeadingLoop_DropOpen(lines, i + 1,
                                   IF chunkList = <<>> THEN chunkList
                                   ELSE CloseChunk(chunkList, current_chunk),
                                   <<lines[i]>>)
         ELSE HeadingLoop_DropOpen(lines, i + 1, chunkList, Append(current_chunk, lines[i]))

\* lines 49-71
RECURSIVE HeadingLoop(_, _, _, _)
HeadingLoop(lines, i, chunkList, current_chunk) ==
    IF i > Len(lines) THEN CloseChunk(chunkList, current_chunk)
    ELSE IF IsHeadingLine(lines[i])
         THEN HeadingLoop(lines, i + 1, CloseChunk(chunkList, current_chunk), <<lines[i]>>)
         ELSE HeadingLoop(lines, i + 1, chunkList, Append(current_chunk, lines[i]))

\* mutant: the guard tests only "not document_content"
BlankInput_EmptyOnly(document_content) ==
    document_content = <<>>

\* the guard every strategy starts with (lines 41-42, 97-98, 195-196, 231-232)
BlankInput(document_content) ==
    document_content = <<>> \/ strip(document_content) = <<>>

chunk_by_headings(document_content) ==
    IF BlankInput(document_content) THEN <<document_content>>
    ELSE LET result == HeadingLoop(split(document_content, NL), 1, <<>>, <<>>)
         IN  IF result = <<>> THEN <<strip(document_content)>> ELSE result

-----------------------------------------------------------------------------
(* DocumentChunker._split_large_chunk *)

\* mutant: a word longer than max is skipped instead of emitted (line 166)
RECURSIVE WordLoop_DropLong(_, _, _, _, _)
WordLoop_DropLong(words, i, sub_chunks, temp_chunk, max) ==
    IF i > Len(words) THEN [sub_chunks |-> sub_chunks, temp_chunk |-> temp_chunk]
    ELSE LET word == words[i] IN
         IF Len(temp_chunk) + Len(word) + 1 > max
         THEN IF temp_chunk # <<>>
              THEN WordLoop_DropLong(words, i + 1, Append(sub_chunks, strip(temp_chunk)),
                                     word, max)
              ELSE WordLoop_DropLong(words, i + 1, sub_chunks, <<>>, max)
         ELSE WordLoop_DropLong(words, i + 1, sub_chunks,
                       IF temp_chunk # <<>> THEN temp_chunk \o SP \o word ELSE word, max)

\* lines 157-169: greedy packing of the words of one oversized paragraph
RECURSIVE WordLoop(_, _, _, _, _)
WordLoop(words, i, sub_chunks, temp_chunk, max) ==
    IF i > Len(words) THEN [sub_chunks |-> sub_chunks, temp_chunk |-> temp_chunk]
    ELSE LET word == words[i] IN
         IF Len(temp_chunk) + Len(word) + 1 > max
         THEN IF temp_chunk # <<>>
              THEN WordLoop(words, i + 1, Append(sub_chunks, strip(temp_chunk)), word, max)
              ELSE WordLoop(words, i + 1, Append(sub_chunks, word), <<>>, max)
         ELSE WordLoop(words, i + 1, sub_chunks,
                       IF temp_chunk # <<>> THEN temp_chunk \o SP \o word ELSE word, max)

\* mutant: the overlap is cut from the head of the buffer (current_chunk[:overlap_size])
NextBuffer_Head(current_chunk, para, overlap_size) ==
    IF overlap_size > 0 /\ Len(current_chunk) > overlap_size
    THEN SubSeq(current_chunk, 1, overlap_size) \o NLNL \o para
    ELSE para

\* lines 147-152: the buffer that follows a paragraph-level flush
NextBuffer(current_chunk, para, overlap_size) ==
    IF overlap_size > 0 /\ Len(current_chunk) > overlap_size
    THEN LastChars(current_chunk, overlap_size) \o NLNL \o para
    ELSE para

\* mutant: the word loop carries overlap too: every sub-chunk it emits after
\* the first begins with the last overlap_size characters of the one before
ParaStep_WordOverlap(st, para, max, overlap_size) ==
    LET current_chunk == st.current_chunk IN
    IF Len(current_chunk) + Len(para) + 2 > max
    THEN IF current_chunk # <<>>
         THEN [sub_chunks |-> Append(st.sub_chunks, strip(current_chunk)),
               current_chunk |-> NextBuffer(current_chunk, para, overlap_size),
               flushes |-> Append(st.flushes,
                              [at |-> Len(st.sub_chunks) + 1,
                               buffer |-> current_chunk,
                               overlapped |-> (overlap_size > 0
                                               /\ Len(current_chunk) > overlap_size)]),
               packs |-> st.packs]
         ELSE IF Len(para) > max
              THEN LET w == WordLoop(split(para, SP), 1, st.sub_chunks, <<>>, max)
                       emitted == [k \in 1..Len(w.sub_chunks) |->
                                     IF k > Len(st.sub_chunks) + 1 /\ overlap_size > 0
                                     THEN LastChars(w.sub_chunks[k - 1], overlap_size)
                                          \o SP \o w.sub_chunks[k]
                                     ELSE w.sub_chunks[k]]
                   IN  [sub_chunks |-> emitted,
                        current_chunk |-> IF w.temp_chunk # <<>> THEN w.temp_chunk
                                          ELSE current_chunk,
                        flushes |-> st.flushes,
                        packs |-> Append(st.packs,
                                    [para |-> para,
                                     first |-> Len(st.sub_chunks) + 1,
                                     last |-> Len(w.sub_chunks),
                                     rest |-> w.temp_chunk])]
              ELSE [sub_chunks |-> st.sub_chunks, current_chunk |-> para,
                    flushes |-> st.flushes, packs |-> st.packs]
    ELSE [sub_chunks |-> st.sub_chunks,
          current_chunk |-> IF current_chunk # <<>> THEN current_chunk \o NLNL \o para
                            ELSE para,
          flushes |-> st.flushes, packs |-> st.packs]

\* lines 143-176: one iteration of the paragraph loop.  st.flushes records,
\* for every paragraph-level flush, the buffer that was flushed, the position
\* of the emitted sub-chunk in sub_chunks and whether overlap was carried over;
\* st.packs records, for every paragraph packed word by word, the paragraph,
\* the positions of the sub-chunks the word loop emitted and the words it left
\* in temp_chunk.
ParaStep(st, para, max, overlap_size) ==
    LET current_chunk == st.current_chunk IN
    IF Len(current_chunk) + Len(para) + 2 > max
    THEN IF current_chunk # <<>>
         THEN [sub_chunks |-> Append(st.sub_chunks, strip(current_chunk)),
               current_chunk |-> NextBuffer(current_chunk, para, overlap_size),
               flushes |-> Append(st.flushes,
                              [at |-> Len(st.sub_chunks) + 1,
                               buffer |-> current_chunk,
                               overlapped |-> (overlap_size > 0
                                               /\ Len(current_chunk) > overlap_size)]),
               packs |-> st.packs]
         ELSE IF Len(para) > max
              THEN LET w == WordLoop(split(para, SP), 1, st.sub_chunks, <<>>, max)
                   IN  [sub_chunks |-> w.sub_chunks,
                        current_chunk |-> IF w.temp_chunk # <<>> THEN w.temp_chunk
                                          ELSE current_chunk,
                        flushes |-> st.flushes,
                        packs |-> Append(st.packs,
                                    [para |-> para,
                                     first |-> Len(st.sub_chunks) + 1,
                                     last |-> Len(w.sub_chunks),
                                     rest |-> w.temp_chunk])]
              ELSE [sub_chunks |-> st.sub_chunks, current_chunk |-> para,
                    flushes |-> st.flushes, packs |-> st.packs]
    ELSE [sub_chunks |-> st.sub_chunks,
          current_chunk |-> IF current_chunk # <<>> THEN current_chunk \o NLNL \o para
                            ELSE para,
          flushes |-> st.flushes, packs |-> st.packs]

RECURSIVE ParaLoop(_, _, _, _, _)
ParaLoop(paragraphs, i, st, max, overlap_size) ==
    IF i > Len(paragraphs) THEN st
    ELSE ParaLoop(paragraphs, i + 1, ParaStep(st, paragraphs[i], max, overlap_size),
                  max, overlap_size)

\* lines 132-136
Paragraphs(chunk) ==
    LET paragraphs == split(chunk, NLNL)
    IN  IF Len(paragraphs) = 1 THEN split(chunk, NL) ELSE paragraphs

\* mutant: the buffer left after the loop is not emitted (lines 179-180)
SplitLargeRun_NoFinal(chunk, max, overlap_size) ==
    IF Len(chunk) <= max
    THEN [sub_chunks |-> <<chunk>>, flushes |-> <<>>, packs |-> <<>>]
    ELSE LET st == ParaLoop(Paragraphs(chunk), 1,
                            [sub_chunks |-> <<>>, current_chunk |-> <<>>, flushes |-> <<>>,
                             packs |-> <<>>],
                            max, overlap_size)
         IN  [sub_chunks |-> st.sub_chunks, flushes |-> st.flushes, packs |-> st.packs]

\* the whole call, with the record of its flushes
SplitLargeRun(chunk, max, overlap_size) ==
    IF Len(chunk) <= max
    THEN [sub_chunks |-> <<chunk>>, flushes |-> <<>>, packs |-> <<>>]
    ELSE LET st == ParaLoop(Paragraphs(chunk), 1,
                            [sub_chunks |-> <<>>, current_chunk |-> <<>>, flushes |-> <<>>,
                             packs |-> <<>>],
                            max, overlap_size)
         IN  [sub_chunks |-> IF st.current_chunk # <<>>
                             THEN Append(st.sub_chunks, strip(st.current_chunk))
                             ELSE st.sub_chunks,
              flushes |-> st.flushes, packs |-> st.packs]

split_large_chunk(chunk, max, overlap_size) ==
    SplitLargeRun(chunk, max, overlap_size).sub_chunks

-----------------------------------------------------------------------------
(* DocumentChunker.chunk_by_headings_advanced *)

\* lines 105-112, one entry per heading chunk
AdvancedRuns(document_content, max_chunk_size, overlap_size) ==
    IF BlankInput(document_content) THEN <<>>
    ELSE LET heading_chunks == chunk_by_headings(document_content)
         IN  [i \in 1..Len(heading_chunks) |->
                LET chunk == heading_chunks[i] IN
                IF Len(chunk) <= max_chunk_size
                THEN [segment |-> chunk, sub_chunks |-> <<chunk>>, flushes |-> <<>>,
                      packs |-> <<>>]
                ELSE LET r == SplitLargeRun(chunk, max_chunk_size, overlap_size)
                     IN  [segment |-> chunk, sub_chunks |-> r.sub_chunks,
                          flushes |-> r.flushes, packs |-> r.packs]]

\* mutant: the sub-chunks of a heading chunk are put before the earlier ones
RECURSIVE Extend_Reversed(_, _)
Extend_Reversed(runs, i) ==
    IF i > Len(runs) THEN <<>> ELSE Extend_Reversed(runs, i + 1) \o runs[i].sub_chunks

\* lines 103-112: all_chunks after the loop over the heading chunks
RECURSIVE Extend(_, _)
Extend(runs, i) ==
    IF i > Len(runs) THEN <<>> ELSE runs[i].sub_chunks \o Extend(runs, i + 1)

chunk_by_headings_advanced(document_content, max_chunk_size, overlap_size) ==
    IF BlankInput(document_content) THEN <<document_content>>
    ELSE Extend(AdvancedRuns(document_content, max_chunk_size, overlap_size), 1)

-----------------------------------------------------------------------------
(* DocumentChunker.chunk_by_sentences and chunk_by_paragraphs *)

Punct == {".", "!", "?"}

\* first position at or after i that holds (or, for inRun, does not hold) a
\* punctuation character; Len(s) + 1 when there is none
NextPunct(s, i, inRun) ==
    LET M == {k \in i..Len(s) : (s[k] \in Punct) # inRun}
    IN  IF M = {} THEN Len(s) + 1 ELSE Least(M)

\* re.split(r'[.!?]+', s), from position i on
RECURSIVE ReSplit(_, _)
ReSplit(s, i) ==
    LET k == NextPunct(s, i, FALSE)
    IN  IF k > Len(s) THEN <<SubSeq(s, i, Len(s))>>
        ELSE <<SubSeq(s, i, k - 1)>> \o ReSplit(s, NextPunct(s, k, TRUE))

\* [p.strip() for p in parts if p.strip()]
RECURSIVE StripNonEmpty(_)
StripNonEmpty(parts) ==
    IF parts = <<>> THEN <<>>
    ELSE IF strip(Head(parts)) # <<>>
         THEN <<strip(Head(parts))>> \o StripNonEmpty(Tail(parts))
         ELSE StripNonEmpty(Tail(parts))

\* mutant: a chunk is closed only when it holds more than max_sentences (line 208)
RECURSIVE SentenceLoop_OneMore(_, _, _, _, _)
SentenceLoop_OneMore(sentences, i, chunkList, current_chunk, max_sentences) ==
    IF i > Len(sentences)
    THEN IF current_chunk # <<>>
         THEN Append(chunkList, join(<<".", " ">>, current_chunk) \o <<".">>)
         ELSE chunkList
    ELSE LET cur == Append(current_chunk, sentences[i]) IN
         IF Len(cur) > max_sentences
         THEN SentenceLoop_OneMore(sentences, i + 1,
                           Append(chunkList, join(<<".", " ">>, cur) \o <<".">>),
                           <<>>, max_sentences)
         ELSE SentenceLoop_OneMore(sentences, i + 1, chunkList, cur, max_sentences)

\* lines 205-216
RECURSIVE SentenceLoop(_, _, _, _, _)
SentenceLoop(sentences, i, chunkList, current_chunk, max_sentences) ==
    IF i > Len(sentences)
    THEN IF current_chunk # <<>>
         THEN Append(chunkList, join(<<".", " ">>, current_chunk) \o <<".">>)
         ELSE chunkList
    ELSE LET cur == Append(current_chunk, sentences[i]) IN
         IF Len(cur) >= max_sentences
         THEN SentenceLoop(sentences, i + 1,
                           Append(chunkList, join(<<".", " ">>, cur) \o <<".">>),
                           <<>>, max_sentences)
         ELSE SentenceLoop(sentences, i + 1, chunkList, cur, max_sentences)

chunk_by_sentences(document_content, max_sentences) ==
    IF BlankInput(document_content) THEN <<document_content>>
    ELSE SentenceLoop(StripNonEmpty(ReSplit(document_content, 1)), 1,
                      <<>>, <<>>, max_sentences)

\* mutant: the paragraphs left over after the last full chunk are not emitted
\* (lines 251-253 missing)
RECURSIVE ParagraphLoop_NoRest(_, _, _, _, _)
ParagraphLoop_NoRest(paragraphs, i, chunkList, current_chunk, max_paragraphs) ==
    IF i > Len(paragraphs)
    THEN chunkList
    ELSE LET cur == Append(current_chunk, paragraphs[i]) IN
         IF Len(cur) >= max_paragraphs
         THEN ParagraphLoop_NoRest(paragraphs, i + 1, Append(chunkList, join(NLNL, cur)),
                                   <<>>, max_paragraphs)
         ELSE ParagraphLoop_NoRest(paragraphs, i + 1, chunkList, cur, max_paragraphs)

\* lines 242-253
RECURSIVE ParagraphLoop(_, _, _, _, _)
ParagraphLoop(paragraphs, i, chunkList, current_chunk, max_paragraphs) ==
    IF i > Len(paragraphs)
    THEN IF current_chunk # <<>>
         THEN Append(chunkList, join(NLNL, current_chunk))
         ELSE chunkList
    ELSE LET cur == Append(current_chunk, paragraphs[i]) IN
         IF Len(cur) >= max_paragraphs
         THEN ParagraphLoop(paragraphs, i + 1, Append(chunkList, join(NLNL, cur)),
                            <<>>, max_paragraphs)
         ELSE ParagraphLoop(paragraphs, i + 1, chunkList, cur, max_paragraphs)

chunk_by_paragraphs(document_content, max_paragraphs) ==
    IF BlankInput(document_content) THEN <<document_content>>
    ELSE LET paragraphs == StripNonEmpty(split(document_content, NLNL))
         IN  IF paragraphs = <<>> THEN <<document_content>>
             ELSE ParagraphLoop(paragraphs, 1, <<>>, <<>>, max_paragraphs)

-----------------------------------------------------------------------------
(* DocumentChunker.get_chunk_info *)

\* lines 272-275: the first line that, trimmed, starts with '#', trimmed;
\* None when there is no such line
FirstHashLine(lines) ==
    LET hits == {k \in 1..Len(lines) : startswith(strip(lines[k]), <<"#">>)}
    IN  IF hits = {} THEN <<>> ELSE <<strip(lines[Least(hits)])>>

\* lines 277-285
ChunkInfo(i, chunk, total) ==
    [content |-> chunk,
     chunk_index |-> i,
     total_chunks |-> total,
     chunk_id |-> <<"chunk_", ToString(i)>>,
     heading |-> FirstHashLine(split(chunk, NL)),
     word_count |-> Cardinality(WordStarts(chunk)),
     char_count |-> Len(chunk)]

\* enumerate(chunks) counts from 0
get_chunk_info(chunkList) ==
    [k \in 1..Len(chunkList) |-> ChunkInfo(k - 1, chunkList[k], Len(chunkList))]

-----------------------------------------------------------------------------
(* DocumentChunker.chunk_educational_content *)

DefaultMaxChunkSize == 1000
DefaultOverlapSize == 100
DefaultMaxSentences == 5
DefaultMaxParagraphs == 3

\* a keyword argument that was not passed
Absent == -1

\* mutant: the keyword argument is ignored and the default always used
KwGet_DefaultOnly(kw, key, default) == default

\* kwargs.get(key, default)
KwGet(kw, key, default) == IF kw[key] = Absent THEN default ELSE kw[key]

Strategies == {"headings", "advanced", "sentences", "paragraphs"}

chunk_educational_content(text, strat, kw) ==
    LET chosen == IF strat \notin Strategies THEN "headings" ELSE strat IN
    CASE chosen = "headings" -> chunk_by_headings(text)
      [] chosen = "advanced" ->
            chunk_by_headings_advanced(text,
                KwGet(kw, "max_chunk_size", DefaultMaxChunkSize),
                KwGet(kw, "overlap_size", DefaultOverlapSize))
      [] chosen = "sentences" ->
            chunk_by_sentences(text, KwGet(kw, "max_sentences", DefaultMaxSentences))
      [] chosen = "paragraphs" ->
            chunk_by_paragraphs(text, KwGet(kw, "max_paragraphs", DefaultMaxParagraphs))

-----------------------------------------------------------------------------
(* RAGManager.retrieve_context_by_board *)

\* Optional[str]: None, or a one-element wrapper around the string
None == <<>>
Some(str) == <<str>>

\* "if board_filter:" is false for None and for the empty string
Truthy(filter) == filter # None /\ filter[1] # <<>>

LowerChar(c) == CASE c = "A" -> "a" [] c = "B" -> "b" [] OTHER -> c

\* str.lower()
lower(str) == [i \in 1..Len(str) |-> LowerChar(str[i])]

\* "needle in haystack"
Contains(haystack, needle) ==
    \E i \in 1..(Len(haystack) + 1) :
        /\ i + Len(needle) - 1 <= Len(haystack)
        /\ SubSeq(haystack, i, i + Len(needle) - 1) = needle

\* metadata.get(key, '')
MetaGet(metadata, key) == IF key \in DOMAIN metadata THEN metadata[key] ELSE <<>>

\* lines 337-340, 343-346, 349-352: FALSE is the "continue"
FilterKeeps(filter, metadata, key) ==
    IF Truthy(filter)
    THEN Contains(lower(MetaGet(metadata, key)), lower(filter[1]))
    ELSE TRUE

\* lines 333-355
RECURSIVE FilterLoop(_, _, _, _, _)
FilterLoop(retrieved_docs, i, board, class, subject) ==
    IF i > Len(retrieved_docs) THEN <<>>
    ELSE LET doc == retrieved_docs[i]
             rest == FilterLoop(retrieved_docs, i + 1, board, class, subject)
         IN  IF /\ FilterKeeps(board, doc.metadata, "board")
                /\ FilterKeeps(class, doc.metadata, "class")
                /\ FilterKeeps(subject, doc.metadata, "subject")
             THEN <<doc>> \o rest
             ELSE rest

\* mutant: line 358 looks at the board filter only
FinalDocs_BoardOnly(retrieved_docs, board, class, subject) ==
    IF Truthy(board)
    THEN FilterLoop(retrieved_docs, 1, board, class, subject)
    ELSE retrieved_docs

\* line 358
FinalDocs(retrieved_docs, board, class, subject) ==
    IF Truthy(board) \/ Truthy(class) \/ Truthy(subject)
    THEN FilterLoop(retrieved_docs, 1, board, class, subject)
    ELSE retrieved_docs

\* list[:k]
Slice(list, k) ==
    IF k >= 0 THEN SubSeq(list, 1, IF k < Len(list) THEN k ELSE Len(list))
    ELSE SubSeq(list, 1, Len(list) + k)

\* mutant: the candidates are truncated to top_k before they are filtered
RetrieveBody_TruncateFirst(retr, retrieved_docs, board, class, subject, k) ==
    IF retr = "none"
    THEN [docs |-> <<>>, outcome |-> "returned", index_queried |-> FALSE]
    ELSE IF retr = "raises"
         THEN [docs |-> <<>>, outcome |-> "raised", index_queried |-> TRUE]
         ELSE [docs |-> FinalDocs(Slice(retrieved_docs, k), board, class, subject),
               outcome |-> "returned", index_queried |-> TRUE]

\* lines 324-371, the body of the try: what it returns, or the exception
\* the index call raised
RetrieveBody(retr, retrieved_docs, board, class, subject, k) ==
    IF retr = "none"
    THEN [docs |-> <<>>, outcome |-> "returned", index_queried |-> FALSE]
    ELSE IF retr = "raises"
         THEN [docs |-> <<>>, outcome |-> "raised", index_queried |-> TRUE]
         ELSE [docs |-> Slice(FinalDocs(retrieved_docs, board, class, subject), k),
               outcome |-> "returned", index_queried |-> TRUE]

\* mutant: no except clause around the body
retrieve_context_by_board_NoExcept(retr, retrieved_docs, board, class, subject, k) ==
    RetrieveBody(retr, retrieved_docs, board, class, subject, k)

\* lines 323-375: the try with its "except Exception: return []"
retrieve_context_by_board(retr, retrieved_docs, board, class, subject, k) ==
    LET body == RetrieveBody(retr, retrieved_docs, board, class, subject, k)
    IN  IF body.outcome = "raised"
        THEN [docs |-> <<>>, outcome |-> "returned", index_queried |-> body.index_queried]
        ELSE body

-----------------------------------------------------------------------------
(* RAGManager.retrieve_context_advanced_filter *)

\* mutant: a candidate without the metadata key of a filter passes that filter
MatchesAllFilters_MissingKeyPasses(metadata, filters) ==
    \A filter_key \in DOMAIN filters :
        filter_key \in DOMAIN metadata =>
            Contains(lower(metadata[filter_key]), lower(filters[filter_key]))

\* lines 539-550: the loop over filters.items() leaves matches_all_filters
\* True when every filter key is in the metadata with a value that contains
\* the filter value, both in lower case
MatchesAllFilters(metadata, filters) ==
    \A filter_key \in DOMAIN filters :
        /\ filter_key \in DOMAIN metadata
        /\ Contains(lower(metadata[filter_key]), lower(filters[filter_key]))

\* lines 535-553
RECURSIVE AdvancedFilterLoop(_, _, _)
AdvancedFilterLoop(retrieved_docs, i, filters) ==
    IF i > Len(retrieved_docs) THEN <<>>
    ELSE LET doc == retrieved_docs[i]
             rest == AdvancedFilterLoop(retrieved_docs, i + 1, filters)
         IN  IF MatchesAllFilters(doc.metadata, filters) THEN <<doc>> \o rest ELSE rest

\* lines 527-564: no retriever, or the index call raises and the except
\* clause returns [], or the filtered candidates cut to top_k
retrieve_context_advanced_filter(retr, retrieved_docs, filters, k) ==
    IF retr = "none" \/ retr = "raises" THEN <<>>
    ELSE Slice(AdvancedFilterLoop(retrieved_docs, 1, filters), k)

-----------------------------------------------------------------------------
(* RAGManager.get_context_string_with_board *)

(* The returned str is a sequence of symbols: the characters of the values   *)
(* that are formatted into it, and the literal pieces of the f-strings, each *)
(* literal piece one symbol.                                                 *)

\* mutant: the class filter is described only when a board filter is given
FilterDescriptions_ClassUnderBoard(board, class, subject) ==
    (IF Truthy(board) THEN <<board[1] \o <<" board">>>> ELSE <<>>)
    \o (IF Truthy(board) /\ Truthy(class) THEN <<class[1]>> ELSE <<>>)
    \o (IF Truthy(subject) THEN <<subject[1]>> ELSE <<>>)

\* lines 398-404
FilterDescriptions(board, class, subject) ==
    (IF Truthy(board) THEN <<board[1] \o <<" board">>>> ELSE <<>>)
    \o (IF Truthy(class) THEN <<class[1]>> ELSE <<>>)
    \o (IF Truthy(subject) THEN <<subject[1]>> ELSE <<>>)

\* lines 406-407
NoContextMessage(board, class, subject) ==
    LET filters == FilterDescriptions(board, class, subject)
        filter_desc == IF filters # <<>> THEN <<" for ">> \o join(<<", ">>, filters) ELSE <<>>
    IN  <<"No relevant context found in the knowledge base">> \o filter_desc \o <<".">>

\* metadata.get(key, 'Unknown')
MetaGetUnknown(metadata, key) ==
    IF key \in DOMAIN metadata THEN metadata[key] ELSE <<"Unknown">>

\* lines 411-423: the block of the i-th document
ContextPart(i, doc) ==
    <<"\n", "Context ", ToString(i), ":", "\n">>
    \o <<"Board: ">> \o MetaGetUnknown(doc.metadata, "board") \o <<"\n">>
    \o <<"Subject: ">> \o MetaGetUnknown(doc.metadata, "subject") \o <<"\n">>
    \o <<"Class: ">> \o MetaGetUnknown(doc.metadata, "class") \o <<"\n">>
    \o <<"Chapter: ">> \o MetaGetUnknown(doc.metadata, "chapter") \o <<"\n">>
    \o <<"Curriculum Type: ">> \o MetaGetUnknown(doc.metadata, "curriculum_type") \o <<"\n">>
    \o <<"Region: ">> \o MetaGetUnknown(doc.metadata, "region") \o <<"\n">>
    \o <<"Content: ">> \o strip(doc.page_content) \o <<"\n">>

\* lines 393-426; the retrieval it calls cannot raise, nor can the formatting
get_context_string_with_board(retr, retrieved_docs, board, class, subject, k) ==
    LET r == retrieve_context_by_board(retr, retrieved_docs, board, class, subject, k)
        context_parts == [i \in 1..Len(r.docs) |-> ContextPart(i, r.docs[i])]
    IN  [docs |-> r.docs, outcome |-> r.outcome, index_queried |-> r.index_queried,
         context |-> IF r.docs = <<>> THEN NoContextMessage(board, class, subject)
                     ELSE join(NL, context_parts)]

-----------------------------------------------------------------------------
(* Specification of the chunker *)

NoSplits == <<>>

InitRagIdle ==
    /\ retriever = "none"
    /\ index_docs = <<>>
    /\ board_filter = None
    /\ class_filter = None
    /\ subject_filter = None
    /\ top_k = 0
    /\ docs = <<>>
    /\ outcome = "idle"
    /\ index_queried = FALSE
    /\ context = <<>>
    /\ advanced_docs = <<>>

NoKwargs == [max_chunk_size |-> Absent, overlap_size |-> Absent,
             max_sentences |-> Absent, max_paragraphs |-> Absent]

\* no request is being processed
InitTutorIdle ==
    /\ agent = <<>>
    /\ state = <<>>
    /\ node = "idle"
    /\ visited = <<>>
    /\ returned = <<>>
    /\ at_breakpoint = FALSE

\* no thread is calling
InitNoThreads ==
    /\ chunker = [logger |-> "logger"]
    /\ calls = <<>>
    /\ pc = <<>>
    /\ locals = <<>>
    /\ results = <<>>
    /\ interleaved = FALSE

InitChunk ==
    /\ InitNoThreads
    /\ InitTutorIdle
    /\ content \in Texts
    /\ fn = "none"
    /\ strategy = "none"
    /\ kwargs = NoKwargs
    /\ max_size = 0
    /\ overlap = 0
    /\ max_n = 0
    /\ chunks = <<>>
    /\ splits = NoSplits
    /\ chunk_infos = <<>>
    /\ InitRagIdle

ChunkByHeadings ==
    /\ fn = "none"
    /\ fn' = "chunk_by_headings"
    /\ chunks' = chunk_by_headings(content)
    /\ UNCHANGED <<content, strategy, kwargs, max_size, overlap, max_n, splits, chunk_infos>>
    /\ UNCHANGED ragVars
    /\ UNCHANGED concVars
    /\ UNCHANGED tutorVars

ChunkByHeadingsAdvanced ==
    /\ fn = "none"
    /\ \E m \in 1..MaxChunkSize, o \in 0..MaxOverlap :
        /\ max_size' = m
        /\ overlap' = o
        /\ chunks' = chunk_by_headings_advanced(content, m, o)
        /\ splits' = AdvancedRuns(content, m, o)
    /\ fn' = "chunk_by_headings_advanced"
    /\ UNCHANGED <<content, strategy, kwargs, max_n, chunk_infos>>
    /\ UNCHANGED ragVars
    /\ UNCHANGED concVars
    /\ UNCHANGED tutorVars

ChunkBySentences ==
    /\ fn = "none"
    /\ \E n \in 1..MaxGroup :
        /\ max_n' = n
        /\ chunks' = chunk_by_sentences(content, n)
    /\ fn' = "chunk_by_sentences"
    /\ UNCHANGED <<content, strategy, kwargs, max_size, overlap, splits, chunk_infos>>
    /\ UNCHANGED ragVars
    /\ UNCHANGED concVars
    /\ UNCHANGED tutorVars

ChunkByParagraphs ==
    /\ fn = "none"
    /\ \E n \in 1..MaxGroup :
        /\ max_n' = n
        /\ chunks' = chunk_by_paragraphs(content, n)
    /\ fn' = "chunk_by_paragraphs"
    /\ UNCHANGED <<content, strategy, kwargs, max_size, overlap, splits, chunk_infos>>
    /\ UNCHANGED ragVars
    /\ UNCHANGED concVars
    /\ UNCHANGED tutorVars

\* the keyword arguments a caller passes: none, or those of the strategy
KwargsFor(strat) ==
    {NoKwargs}
    \cup (IF strat = "advanced"
          THEN {[NoKwargs EXCEPT !.max_chunk_size = m, !.overlap_size = o] :
                    m \in 1..MaxChunkSize, o \in 0..MaxOverlap}
          ELSE {})
    \cup (IF strat = "sentences"
          THEN {[NoKwargs EXCEPT !.max_sentences = n] : n \in 1..MaxGroup}
          ELSE {})
    \cup (IF strat = "paragraphs"
          THEN {[NoKwargs EXCEPT !.max_paragraphs = n] : n \in 1..MaxGroup}
          ELSE {})

ChunkEducationalContent ==
    /\ fn = "none"
    /\ \E strat \in Strategies \cup {"unknown"} :
        \E kw \in KwargsFor(strat) :
            /\ strategy' = strat
            /\ kwargs' = kw
            /\ chunks' = chunk_educational_content(content, strat, kw)
    /\ fn' = "chunk_educational_content"
    /\ UNCHANGED <<content, max_size, overlap, max_n, splits, chunk_infos>>
    /\ UNCHANGED ragVars
    /\ UNCHANGED concVars
    /\ UNCHANGED tutorVars

\* get_chunk_info is called with the list a chunking call returned
GetChunkInfo ==
    /\ fn # "none"
    /\ chunk_infos = <<>>
    /\ chunk_infos' = <<get_chunk_info(chunks)>>
    /\ UNCHANGED <<content, fn, strategy, kwargs, max_size, overlap, max_n, chunks, splits>>
    /\ UNCHANGED ragVars
    /\ UNCHANGED concVars
    /\ UNCHANGED tutorVars

NextChunk ==
    \/ ChunkByHeadings
    \/ ChunkByHeadingsAdvanced
    \/ ChunkBySentences
    \/ ChunkByParagraphs
    \/ ChunkEducationalContent
    \/ GetChunkInfo

SpecChunk == InitChunk /\ [][NextChunk]_vars

-----------------------------------------------------------------------------
(* Specification of the retrieval *)

\* metadata values stored with the indexed documents
BoardValues == {<<"A", "b">>, <<"b">>}
ClassValues == {<<"a">>}
SubjectValues == {<<"a">>}

\* a metadata dict: each of the three keys present or not
Metadatas ==
    {[k \in keys |-> CASE k = "board" -> b [] k = "class" -> c [] k = "subject" -> s] :
        keys \in SUBSET {"board", "class", "subject"},
        b \in BoardValues, c \in ClassValues, s \in SubjectValues}

Documents == {[metadata |-> m] : m \in Metadatas}

RECURSIVE ListsOfLen(_)
ListsOfLen(n) ==
    IF n = 0 THEN {<<>>}
    ELSE {Append(l, d) : l \in ListsOfLen(n - 1), d \in Documents}

CandidateLists == UNION {ListsOfLen(n) : n \in 0..MaxDocs}

BoardFilters == {None, Some(<<>>), Some(<<"a">>), Some(<<"B">>)}
ClassFilters == {None, Some(<<"A">>)}
SubjectFilters == {None, Some(<<"b">>), Some(<<"a">>)}

InitChunkIdle ==
    /\ content = <<>>
    /\ fn = "none"
    /\ strategy = "none"
    /\ kwargs = NoKwargs
    /\ max_size = 0
    /\ overlap = 0
    /\ max_n = 0
    /\ chunks = <<>>
    /\ splits = NoSplits
    /\ chunk_infos = <<>>

InitRetrieve ==
    /\ InitNoThreads
    /\ InitTutorIdle
    /\ retriever \in {"none", "ok", "raises"}
    /\ index_docs \in CandidateLists
    /\ board_filter = None
    /\ class_filter = None
    /\ subject_filter = None
    /\ top_k = 0
    /\ docs = <<>>
    /\ outcome = "idle"
    /\ index_queried = FALSE
    /\ context = <<>>
    /\ advanced_docs = <<>>
    /\ InitChunkIdle

RetrieveContextByBoard ==
    /\ outcome = "idle"
    /\ \E b \in BoardFilters, c \in ClassFilters, s \in SubjectFilters, k \in 0..MaxTopK :
        LET r == retrieve_context_by_board(retriever, index_docs, b, c, s, k) IN
        /\ board_filter' = b
        /\ class_filter' = c
        /\ subject_filter' = s
        /\ top_k' = k
        /\ docs' = r.docs
        /\ outcome' = r.outcome
        /\ index_queried' = r.index_queried
    /\ UNCHANGED <<retriever, index_docs, context, advanced_docs>>
    /\ UNCHANGED chunkVars
    /\ UNCHANGED concVars
    /\ UNCHANGED tutorVars

\* the filters dict a caller builds from the filters it has: one entry for
\* each filter that is not None
FiltersDict(board, class, subject) ==
    LET given == [board |-> board, class |-> class, subject |-> subject]
    IN  [key \in {x \in DOMAIN given : given[x] # None} |-> given[key][1]]

\* after retrieve_context_by_board, retrieve_context_advanced_filter is called
\* on the same manager with the same filters and the same top_k
RetrieveContextAdvancedFilter ==
    /\ outcome = "returned"
    /\ advanced_docs = <<>>
    /\ advanced_docs' = <<retrieve_context_advanced_filter(retriever, index_docs,
                              FiltersDict(board_filter, class_filter, subject_filter),
                              top_k)>>
    /\ UNCHANGED <<retriever, index_docs, board_filter, class_filter, subject_filter,
                   top_k, docs, outcome, index_queried, context>>
    /\ UNCHANGED chunkVars
    /\ UNCHANGED concVars
    /\ UNCHANGED tutorVars

NextRetrieve ==
    \/ RetrieveContextByBoard
    \/ RetrieveContextAdvancedFilter

SpecRetrieve == InitRetrieve /\ [][NextRetrieve]_vars

-----------------------------------------------------------------------------
(* Properties of the chunker *)

Called(name) == fn = name

NonBlank(text) == \E i \in 1..Len(text) : text[i] \notin Whitespace

\* the words of all returned chunks
ChunkWords == UNION {WordSet(chunks[i]) : i \in 1..Len(chunks)}

LinesOf(text) == {split(text, NL)[i] : i \in 1..Len(split(text, NL))}

\* a word of the input, or a whole line of it (trimmed or not)
AtomicUnits(text) == WordSet(text) \cup LinesOf(text) \cup {strip(l) : l \in LinesOf(text)}

\* C1: every chunk chunk_by_headings_advanced returns for a text that is not
\* blank (a blank text is returned as it is) is at most max_chunk_size long,
\* or is one single word or line of the input.
C1_SizeBound ==
    (Called("chunk_by_headings_advanced") /\ NonBlank(content)) =>
        \A i \in 1..Len(chunks) :
            \/ Len(chunks[i]) <= max_size
            \/ chunks[i] \in AtomicUnits(content)

\* the first non-whitespace character of the line is '#' and another
\* non-whitespace character follows it
HeadingAt(line, i) ==
    /\ line[i] = "#"
    /\ \A j \in 1..(i - 1) : line[j] \in Whitespace
    /\ \E j \in (i + 1)..Len(line) : line[j] \notin Whitespace

MarkedLine(line) == \E i \in 1..Len(line) : HeadingAt(line, i)

\* number of '#' the marker of a heading line consists of
MarkerLevel(line) ==
    LET i == CHOOSE k \in 1..Len(line) : HeadingAt(line, k)
    IN  Cardinality({n \in i..Len(line) : \A j \in i..n : line[j] = "#"})

\* C2: chunk_by_headings starts a new chunk at heading lines of level 1 or 2
\* only: no chunk after the first begins with a marker of level 3 or deeper.
C2_DeepHeadingsNeverSplit ==
    Called("chunk_by_headings") =>
        \A k \in 2..Len(chunks) :
            MarkedLine(chunks[k]) => MarkerLevel(chunks[k]) <= 2

\* C3 as stated: under every strategy of chunk_educational_content the words
\* of the chunks are exactly the words of the input.
C3_WordSetEqual ==
    Called("chunk_educational_content") => ChunkWords = WordSet(content)

\* C3 amended: headings (also as the fallback of an unknown strategy) and
\* paragraphs return exactly the words of the input; advanced returns every
\* word of the input, possibly with fragments of words added by the overlap.
C3_WordsKept ==
    Called("chunk_educational_content") =>
        /\ strategy \in {"headings", "paragraphs", "unknown"} => ChunkWords = WordSet(content)
        /\ strategy = "advanced" => WordSet(content) \subseteq ChunkWords

C3_Witness ==
    /\ Called("chunk_educational_content")
    /\ strategy = "advanced"
    /\ Len(chunks) >= 2
    /\ WordSet(content) \subseteq ChunkWords
    /\ ChunkWords # WordSet(content)

\* the paragraph-level flushes of the call that carried overlap over
OverlapFlushes ==
    {<<r, f>> \in (DOMAIN splits) \X (1..MaxLen) :
        /\ f \in DOMAIN splits[r].flushes
        /\ splits[r].flushes[f].overlapped}

EmittedAt(r, f) == splits[r].sub_chunks[splits[r].flushes[f].at]
EmittedAfter(r, f) == splits[r].sub_chunks[splits[r].flushes[f].at + 1]
FlushedBuffer(r, f) == splits[r].flushes[f].buffer

\* C4 as stated: after a paragraph-level flush of a buffer longer than
\* overlap_size > 0, the last overlap_size characters of the emitted sub-chunk
\* are a prefix of the next sub-chunk.
C4_OverlapPrefix ==
    Called("chunk_by_headings_advanced") =>
        \A rf \in OverlapFlushes :
            /\ splits[rf[1]].flushes[rf[2]].at + 1 <= Len(splits[rf[1]].sub_chunks)
            /\ startswith(EmittedAfter(rf[1], rf[2]),
                          LastChars(EmittedAt(rf[1], rf[2]), overlap))

\* the buffer does not end in whitespace and its overlap does not begin with
\* whitespace
CleanOverlap(buffer) ==
    /\ buffer[Len(buffer)] \notin Whitespace
    /\ buffer[Len(buffer) - overlap + 1] \notin Whitespace

\* C4 amended: the last overlap_size characters of the flushed buffer, trimmed
\* of surrounding whitespace, are a prefix of the next sub-chunk; when the
\* buffer does not end in whitespace and the overlap does not begin with
\* whitespace they are the last overlap_size characters of the emitted
\* sub-chunk, untrimmed.
C4_OverlapPrefixTrimmed ==
    Called("chunk_by_headings_advanced") =>
        \A rf \in OverlapFlushes :
            /\ splits[rf[1]].flushes[rf[2]].at + 1 <= Len(splits[rf[1]].sub_chunks)
            /\ startswith(EmittedAfter(rf[1], rf[2]),
                          strip(LastChars(FlushedBuffer(rf[1], rf[2]), overlap)))
            /\ CleanOverlap(FlushedBuffer(rf[1], rf[2])) =>
                  /\ LastChars(EmittedAt(rf[1], rf[2]), overlap)
                        = LastChars(FlushedBuffer(rf[1], rf[2]), overlap)
                  /\ startswith(EmittedAfter(rf[1], rf[2]),
                                LastChars(EmittedAt(rf[1], rf[2]), overlap))

C4_Witness ==
    /\ Called("chunk_by_headings_advanced")
    /\ \E rf \in OverlapFlushes :
          /\ CleanOverlap(FlushedBuffer(rf[1], rf[2]))
          /\ Len(LastChars(EmittedAt(rf[1], rf[2]), overlap)) = overlap
          /\ startswith(EmittedAfter(rf[1], rf[2]),
                        LastChars(EmittedAt(rf[1], rf[2]), overlap))

\* the lines of the text that satisfy P, in order
HeadingLines(text, P(_)) == SelectSeq(split(text, NL), P)

Level12(line) == MarkedLine(line) /\ MarkerLevel(line) <= 2

HasPreamble(text) ==
    LET lines == split(text, NL) IN
    \E i \in 1..Len(lines) :
        /\ NonBlank(lines[i])
        /\ \A j \in 1..i : ~MarkedLine(lines[j])
        /\ \E j \in (i + 1)..Len(lines) : MarkedLine(lines[j])

DirectStrategyCalls ==
    {"chunk_by_headings", "chunk_by_headings_advanced",
     "chunk_by_sentences", "chunk_by_paragraphs"}

\* C6: each of the four strategy functions returns an empty or
\* whitespace-only input as the only element of its result, unchanged.
C6_BlankPassThrough ==
    (fn \in DirectStrategyCalls /\ ~NonBlank(content)) => chunks = <<content>>

C6_Witness ==
    /\ Called("chunk_by_sentences")
    /\ content = <<" ", " ", " ">>
    /\ chunks = <<content>>

\* the first non-whitespace character of the line is '#'
MarkerLine(line) ==
    \E i \in 1..Len(line) :
        line[i] = "#" /\ \A j \in 1..(i - 1) : line[j] \in Whitespace

\* C7: for a text with a non-whitespace character and no heading-marker line
\* chunk_by_headings returns exactly the text trimmed of surrounding
\* whitespace.
C7_NoHeadingIdentity ==
    (/\ Called("chunk_by_headings")
     /\ NonBlank(content)
     /\ \A l \in LinesOf(content) : ~MarkerLine(l))
    => chunks = <<strip(content)>>

C7_Witness ==
    /\ Called("chunk_by_headings")
    /\ NonBlank(content)
    /\ \A l \in LinesOf(content) : ~MarkerLine(l)
    /\ Len(split(content, NL)) >= 2
    /\ content # strip(content)
    /\ chunks = <<strip(content)>>

-----------------------------------------------------------------------------
(* Properties of the retrieval *)

SameLetter(c, d) == c = d \/ {c, d} = {"a", "A"} \/ {c, d} = {"b", "B"}

\* needle occurs in haystack, letter case ignored
OccursIn(needle, haystack) ==
    \E i \in 0..(Len(haystack) - Len(needle)) :
        \A j \in 1..Len(needle) : SameLetter(haystack[i + j], needle[j])

\* the document passes the filter: the filter is not given, or its value
\* occurs in the metadata field of the document
Passes(filter, doc, key) ==
    \/ filter = None
    \/ /\ key \in DOMAIN doc.metadata
       /\ OccursIn(filter[1], doc.metadata[key])
    \/ /\ key \notin DOMAIN doc.metadata
       /\ filter[1] = <<>>

PassesAll(doc) ==
    /\ Passes(board_filter, doc, "board")
    /\ Passes(class_filter, doc, "class")
    /\ Passes(subject_filter, doc, "subject")

\* C8: every document retrieve_context_by_board returns passes every filter
\* that is set; a document lacking the metadata field of a set filter is not
\* returned.
C8_FilterConjunction ==
    outcome = "returned" =>
        \A i \in 1..Len(docs) :
            /\ PassesAll(docs[i])
            /\ Truthy(board_filter) => "board" \in DOMAIN docs[i].metadata
            /\ Truthy(class_filter) => "class" \in DOMAIN docs[i].metadata
            /\ Truthy(subject_filter) => "subject" \in DOMAIN docs[i].metadata

C8_Witness ==
    /\ outcome = "returned"
    /\ Truthy(board_filter) /\ Truthy(class_filter)
    /\ Len(docs) = 1
    /\ Len(index_docs) = 2
    /\ \E i \in 1..2 : ~PassesAll(index_docs[i])

FirstK(list, k) == [i \in 1..(IF k < Len(list) THEN k ELSE Len(list)) |-> list[i]]

NoFilterSet == ~Truthy(board_filter) /\ ~Truthy(class_filter) /\ ~Truthy(subject_filter)

\* C9: with the index available the result is the first top_k of the
\* candidates that pass the filters, in the order of the similarity search
\* (all candidates pass when no filter is set), and never more than top_k.
C9_FilterThenTruncate ==
    (outcome = "returned" /\ retriever = "ok") =>
        /\ docs = FirstK(SelectSeq(index_docs, PassesAll), top_k)
        /\ NoFilterSet => docs = FirstK(index_docs, top_k)
        /\ Len(docs) <= top_k

C9_Witness ==
    /\ outcome = "returned" /\ retriever = "ok"
    /\ top_k = 1
    /\ Len(index_docs) = 2
    /\ ~PassesAll(index_docs[1])
    /\ docs = <<index_docs[2]>>

\* C10: retrieve_context_by_board never raises: without a retriever it
\* returns the empty list and does not query the index, and when the index
\* call raises it returns the empty list.
C10_DegradedAvailability ==
    outcome # "idle" =>
        /\ outcome = "returned"
        /\ retriever = "none" => (docs = <<>> /\ ~index_queried)
        /\ retriever = "raises" => docs = <<>>

C10_Witness ==
    /\ retriever = "raises"
    /\ index_docs # <<>>
    /\ index_queried
    /\ outcome = "returned"
    /\ docs = <<>>

-----------------------------------------------------------------------------
(* Properties of the facade and of the sentence and paragraph strategies *)

\* the value of a keyword argument, or d when it was not passed
Given(key, d) == IF kwargs[key] = Absent THEN d ELSE kwargs[key]

\* C11: chunk_educational_content returns what the strategy function named
\* by strategy returns for the same content, with the defaults 1000, 100, 5
\* and 3 for options not given; an unknown strategy name gives
\* chunk_by_headings(content).
C11_FacadeDispatch ==
    Called("chunk_educational_content") =>
        chunks = CASE strategy = "advanced" ->
                        chunk_by_headings_advanced(content,
                            Given("max_chunk_size", 1000), Given("overlap_size", 100))
                   [] strategy = "sentences" ->
                        chunk_by_sentences(content, Given("max_sentences", 5))
                   [] strategy = "paragraphs" ->
                        chunk_by_paragraphs(content, Given("max_paragraphs", 3))
                   [] OTHER -> chunk_by_headings(content)

\* the defaults decide the result: a text longer than 1000 characters is cut
\* into two chunks, the second led by 100 characters of overlap
C11_Witness ==
    /\ Called("chunk_educational_content")
    /\ strategy = "advanced"
    /\ kwargs = NoKwargs
    /\ Len(content) > 1000
    /\ Len(chunks) = 2
    /\ Len(chunks[2]) = 100 + 2 + Len(chunks[1])

\* the k-th element, in increasing order, of a set of positions
Nth(S, k) == CHOOSE x \in S : Cardinality({y \in S : y < x}) = k - 1

Terminator(c) == c = "." \/ c = "!" \/ c = "?"

\* the maximal runs of characters other than '.', '!' and '?', in order
RunStarts(text) ==
    {i \in 1..Len(text) : ~Terminator(text[i]) /\ (i = 1 \/ Terminator(text[i - 1]))}

RunEnds(text) ==
    {j \in 1..Len(text) :
        ~Terminator(text[j]) /\ (j = Len(text) \/ Terminator(text[j + 1]))}

Runs(text) ==
    [k \in 1..Cardinality(RunStarts(text)) |->
        SubSeq(text, Nth(RunStarts(text), k), Nth(RunEnds(text), k))]

\* the pieces that hold a non-whitespace character, trimmed
Trimmed(pieces) ==
    LET kept == SelectSeq(pieces, NonBlank)
    IN  [k \in 1..Len(kept) |-> strip(kept[k])]

\* the items in groups of n, the last group holding the rest
Groups(items, n) ==
    [k \in 1..((Len(items) + n - 1) \div n) |->
        SubSeq(items, (k - 1) * n + 1,
               IF k * n < Len(items) THEN k * n ELSE Len(items))]

\* C12: for non-blank text chunk_by_sentences returns the trimmed, non-empty
\* fragments between runs of '.', '!' and '?', in order, in groups of
\* max_sentences (the last group holding the rest), each group joined by
\* ". " and ended by ".".
C12_SentenceGrouping ==
    (Called("chunk_by_sentences") /\ NonBlank(content)) =>
        LET groups == Groups(Trimmed(Runs(content)), max_n)
        IN  chunks = [k \in 1..Len(groups) |-> join(<<".", " ">>, groups[k]) \o <<".">>]

C12_Witness ==
    /\ Called("chunk_by_sentences")
    /\ content = <<"a", "!", " ", "a", "?", "a">>
    /\ max_n = 2
    /\ chunks = << <<"a", ".", " ", "a", ".">>, <<"a", ".">> >>

\* C13: for non-blank text chunk_by_paragraphs returns the trimmed, non-empty
\* pieces between blank lines, in order, in groups of max_paragraphs (the
\* last group holding the rest), each group joined by a blank line.
C13_ParagraphGrouping ==
    (Called("chunk_by_paragraphs") /\ NonBlank(content)) =>
        LET groups == Groups(Trimmed(split(content, NLNL)), max_n)
        IN  chunks = [k \in 1..Len(groups) |-> join(NLNL, groups[k])]

C13_Witness ==
    /\ Called("chunk_by_paragraphs")
    /\ Len(Trimmed(split(content, NLNL))) = 4
    /\ max_n = 2
    /\ Len(chunks) = 2
    /\ chunks[1] = <<"a", "\n", "\n", "a">>

-----------------------------------------------------------------------------
(* Specification of the context string *)

\* documents with page content and up to six metadata fields
StoredMetadata ==
    [board |-> <<"A", "b">>, subject |-> <<"a">>, class |-> <<"a">>,
     chapter |-> <<"b">>, curriculum_type |-> <<"B">>, region |-> <<"A">>]

MetadataKeySets ==
    {{}, {"board", "subject", "class"}, {"chapter", "region"},
     {"board", "subject", "class", "chapter", "curriculum_type", "region"}}

PageContents == {<<"a">>, <<" ", "b", "\n">>}

ContextDocuments ==
    {[page_content |-> page, metadata |-> [k \in keys |-> StoredMetadata[k]]] :
        page \in PageContents, keys \in MetadataKeySets}

RECURSIVE ContextListsOfLen(_)
ContextListsOfLen(n) ==
    IF n = 0 THEN {<<>>}
    ELSE {Append(l, d) : l \in ContextListsOfLen(n - 1), d \in ContextDocuments}

InitContext ==
    /\ InitNoThreads
    /\ InitTutorIdle
    /\ retriever \in {"none", "ok", "raises"}
    /\ index_docs \in UNION {ContextListsOfLen(n) : n \in 0..MaxDocs}
    /\ board_filter = None
    /\ class_filter = None
    /\ subject_filter = None
    /\ top_k = 0
    /\ docs = <<>>
    /\ outcome = "idle"
    /\ index_queried = FALSE
    /\ context = <<>>
    /\ advanced_docs = <<>>
    /\ InitChunkIdle

GetContextStringWithBoard ==
    /\ outcome = "idle"
    /\ \E b \in BoardFilters, c \in ClassFilters, s \in SubjectFilters, k \in 0..MaxTopK :
        LET r == get_context_string_with_board(retriever, index_docs, b, c, s, k) IN
        /\ board_filter' = b
        /\ class_filter' = c
        /\ subject_filter' = s
        /\ top_k' = k
        /\ docs' = r.docs
        /\ outcome' = r.outcome
        /\ index_queried' = r.index_queried
        /\ context' = r.context
    /\ UNCHANGED <<retriever, index_docs, advanced_docs>>
    /\ UNCHANGED chunkVars
    /\ UNCHANGED concVars
    /\ UNCHANGED tutorVars

NextContext ==
    \/ GetContextStringWithBoard

SpecContext == InitContext /\ [][NextContext]_vars

\* the symbols of the string from position i on begin with the symbols of p
At(str, i, p) ==
    /\ i + Len(p) - 1 <= Len(str)
    /\ SubSeq(str, i, i + Len(p) - 1) = p

Occurs(str, p) == \E i \in 1..Len(str) : At(str, i, p)

\* the block's line for a field of the document: label, value, line end
FieldLine(label, doc, key) ==
    <<label>> \o (IF key \in DOMAIN doc.metadata THEN doc.metadata[key]
                  ELSE <<"Unknown">>) \o <<"\n">>

\* the lines of the block numbered n of the document, in the claim's order
Block(n, doc) ==
    <<"Context ", ToString(n), ":", "\n">>
    \o FieldLine("Board: ", doc, "board")
    \o FieldLine("Subject: ", doc, "subject")
    \o FieldLine("Class: ", doc, "class")
    \o FieldLine("Chapter: ", doc, "chapter")
    \o FieldLine("Curriculum Type: ", doc, "curriculum_type")
    \o FieldLine("Region: ", doc, "region")
    \o <<"Content: ">> \o strip(doc.page_content) \o <<"\n">>

\* positions at which a block header stands
HeaderPositions == {i \in 1..Len(context) : context[i] = "Context "}

\* the names the message gives to the filters that are set, in order
FilterNames ==
    LET name == <<IF Truthy(board_filter) THEN board_filter[1] \o <<" board">> ELSE <<>>,
                  IF Truthy(class_filter) THEN class_filter[1] ELSE <<>>,
                  IF Truthy(subject_filter) THEN subject_filter[1] ELSE <<>>>>
        set == {i \in 1..3 : <<board_filter, class_filter, subject_filter>>[i] # None
                              /\ name[i] # <<>>}
    IN  [k \in 1..Cardinality(set) |-> name[Nth(set, k)]]

\* C14: without a retrieved document get_context_string_with_board returns
\* the "No relevant context found" message naming exactly the filters that
\* are set; with n >= 1 documents it returns n blocks numbered 1..n in
\* retrieval order, each with the seven fields of its document.
C14_ContextString ==
    outcome = "returned" =>
        /\ docs = <<>> =>
              context = <<"No relevant context found in the knowledge base">>
                        \o (IF FilterNames = <<>> THEN <<>>
                            ELSE <<" for ">> \o join(<<", ">>, FilterNames))
                        \o <<".">>
        /\ docs # <<>> =>
              /\ Cardinality(HeaderPositions) = Len(docs)
              /\ \A n \in 1..Len(docs) :
                    At(context, Nth(HeaderPositions, n), Block(n, docs[n]))
              /\ Len(context) = Nth(HeaderPositions, Len(docs))
                                  + Len(Block(Len(docs), docs[Len(docs)])) - 1

C14_Witness ==
    /\ outcome = "returned"
    /\ Len(docs) = 2
    /\ Truthy(board_filter)
    /\ docs[1] # docs[2]
    /\ Occurs(context, <<"Chapter: ", "Unknown">>)
    /\ Occurs(context, <<"Context ", "2", ":", "\n", "Board: ", "A", "b">>)

-----------------------------------------------------------------------------
(* Specification of concurrent calls on one DocumentChunker *)

MaxThreads == 2

Threads == 1..MaxThreads

\* mutant: the parameters and accumulators are kept on the chunker, one set
\* for all calls
Frame_Shared(t) == 1

\* the frame that holds the parameters and local variables of the call of
\* thread t: document_content, lines, chunks, current_chunk, ... are names
\* local to the call (lines 45-47, 101-103, 199-203, 234-240), never
\* attributes of self
Frame(t) == t

ThreadTexts ==
    {<<"#", "a", "\n", "#", "a", " ", "a">>,
     <<"a", ".", "a", "\n", "\n", "a">>,
     <<".">>}

ThreadCalls ==
    {[strategy |-> "headings", kwargs |-> NoKwargs],
     [strategy |-> "advanced", kwargs |-> [NoKwargs EXCEPT !.max_chunk_size = 2,
                                                          !.overlap_size = 1]],
     [strategy |-> "sentences", kwargs |-> [NoKwargs EXCEPT !.max_sentences = 1]],
     [strategy |-> "paragraphs", kwargs |-> [NoKwargs EXCEPT !.max_paragraphs = 1]],
     [strategy |-> "unknown", kwargs |-> NoKwargs]}

EmptyFrame ==
    [document_content |-> <<>>, caller |-> "facade",
     max_chunk_size |-> 0, overlap_size |-> 0, max_n |-> 0,
     units |-> <<>>, i |-> 1, chunks |-> <<>>, current_chunk |-> <<>>,
     heading_chunks |-> <<>>, j |-> 1, final_chunks |-> <<>>]

InitConcurrent ==
    /\ chunker = [logger |-> "logger"]
    /\ calls \in [Threads -> {[document |-> d, strategy |-> c.strategy, kwargs |-> c.kwargs] :
                                d \in ThreadTexts, c \in ThreadCalls}]
    /\ pc = [t \in Threads |-> "call"]
    /\ locals = [t \in Threads |-> EmptyFrame]
    /\ results = [t \in Threads |-> <<>>]
    /\ interleaved = FALSE
    /\ InitChunkIdle
    /\ InitRagIdle
    /\ InitTutorIdle

\* thread t takes a step; the other variables of the model stay as they are
Step(t) ==
    /\ interleaved' = (interleaved \/ \E u \in Threads \ {t} : pc[u] \notin {"call", "done"})
    /\ UNCHANGED <<chunker, calls>>
    /\ UNCHANGED chunkVars
    /\ UNCHANGED ragVars
    /\ UNCHANGED tutorVars

\* the call of thread t returns ret to its caller
Return(t, ret) ==
    /\ results' = [results EXCEPT ![t] = ret]
    /\ pc' = [pc EXCEPT ![t] = "done"]
    /\ UNCHANGED locals

\* the frame of thread t becomes f and the call goes on at label
Goto(t, f, label) ==
    /\ locals' = [locals EXCEPT ![Frame(t)] = f]
    /\ pc' = [pc EXCEPT ![t] = label]
    /\ UNCHANGED results

\* chunk_educational_content, lines 376-397: the strategy is looked up and
\* called with the content and its keyword arguments
Dispatch ==
    \E t \in Threads :
        /\ pc[t] = "call"
        /\ LET c == calls[t]
               chosen == IF c.strategy \notin Strategies THEN "headings" ELSE c.strategy
           IN  Goto(t, [EmptyFrame EXCEPT
                          !.document_content = c.document,
                          !.max_chunk_size = KwGet(c.kwargs, "max_chunk_size", DefaultMaxChunkSize),
                          !.overlap_size = KwGet(c.kwargs, "overlap_size", DefaultOverlapSize),
                          !.max_n = IF chosen = "sentences"
                                    THEN KwGet(c.kwargs, "max_sentences", DefaultMaxSentences)
                                    ELSE KwGet(c.kwargs, "max_paragraphs", DefaultMaxParagraphs)],
                    chosen)
        /\ Step(t)

\* chunk_by_headings returns ret: to chunk_by_headings_advanced (line 101)
\* or to the caller of chunk_educational_content
HeadingsReturns(t, ret) ==
    LET f == locals[Frame(t)] IN
    IF f.caller = "advanced"
    THEN Goto(t, [f EXCEPT !.heading_chunks = ret, !.j = 1, !.final_chunks = <<>>],
              "advanced_loop")
    ELSE Return(t, ret)

\* chunk_by_headings, lines 41-47
HeadingsEnter ==
    \E t \in Threads :
        /\ pc[t] = "headings"
        /\ LET f == locals[Frame(t)] IN
           IF BlankInput(f.document_content)
           THEN HeadingsReturns(t, <<f.document_content>>)
           ELSE Goto(t, [f EXCEPT !.units = split(f.document_content, NL), !.i = 1,
                                  !.chunks = <<>>, !.current_chunk = <<>>],
                     "headings_loop")
        /\ Step(t)

\* chunk_by_headings, lines 49-65: one line of the text
HeadingsLine ==
    \E t \in Threads :
        /\ pc[t] = "headings_loop"
        /\ LET f == locals[Frame(t)] IN
           /\ f.i <= Len(f.units)
           /\ IF IsHeadingLine(f.units[f.i])
              THEN Goto(t, [f EXCEPT !.chunks = CloseChunk(f.chunks, f.current_chunk),
                                     !.current_chunk = <<f.units[f.i]>>,
                                     !.i = f.i + 1],
                        "headings_loop")
              ELSE Goto(t, [f EXCEPT !.current_chunk = Append(f.current_chunk, f.units[f.i]),
                                     !.i = f.i + 1],
                        "headings_loop")
        /\ Step(t)

\* chunk_by_headings, lines 67-83
HeadingsExit ==
    \E t \in Threads :
        /\ pc[t] = "headings_loop"
        /\ LET f == locals[Frame(t)]
               result == CloseChunk(f.chunks, f.current_chunk)
           IN  /\ f.i > Len(f.units)
               /\ HeadingsReturns(t, IF result = <<>> THEN <<strip(f.document_content)>>
                                     ELSE result)
        /\ Step(t)

\* chunk_by_headings_advanced, lines 97-101
AdvancedEnter ==
    \E t \in Threads :
        /\ pc[t] = "advanced"
        /\ LET f == locals[Frame(t)] IN
           IF BlankInput(f.document_content)
           THEN Return(t, <<f.document_content>>)
           ELSE Goto(t, [f EXCEPT !.caller = "advanced"], "headings")
        /\ Step(t)

\* chunk_by_headings_advanced, lines 105-112: one heading chunk
AdvancedChunk ==
    \E t \in Threads :
        /\ pc[t] = "advanced_loop"
        /\ LET f == locals[Frame(t)] IN
           /\ f.j <= Len(f.heading_chunks)
           /\ LET chunk == f.heading_chunks[f.j] IN
              Goto(t, [f EXCEPT !.final_chunks =
                                    IF Len(chunk) <= f.max_chunk_size
                                    THEN Append(f.final_chunks, chunk)
                                    ELSE f.final_chunks
                                         \o split_large_chunk(chunk, f.max_chunk_size,
                                                              f.overlap_size),
                                !.j = f.j + 1],
                   "advanced_loop")
        /\ Step(t)

\* chunk_by_headings_advanced, line 114
AdvancedExit ==
    \E t \in Threads :
        /\ pc[t] = "advanced_loop"
        /\ LET f == locals[Frame(t)] IN
           /\ f.j > Len(f.heading_chunks)
           /\ Return(t, f.final_chunks)
        /\ Step(t)

\* chunk_by_sentences, lines 195-203
SentencesEnter ==
    \E t \in Threads :
        /\ pc[t] = "sentences"
        /\ LET f == locals[Frame(t)] IN
           IF BlankInput(f.document_content)
           THEN Return(t, <<f.document_content>>)
           ELSE Goto(t, [f EXCEPT !.units = StripNonEmpty(ReSplit(f.document_content, 1)),
                                  !.i = 1, !.chunks = <<>>, !.current_chunk = <<>>],
                     "sentences_loop")
        /\ Step(t)

\* chunk_by_sentences, lines 205-211: one sentence
SentencesSentence ==
    \E t \in Threads :
        /\ pc[t] = "sentences_loop"
        /\ LET f == locals[Frame(t)] IN
           /\ f.i <= Len(f.units)
           /\ LET cur == Append(f.current_chunk, f.units[f.i]) IN
              IF Len(cur) >= f.max_n
              THEN Goto(t, [f EXCEPT !.chunks = Append(f.chunks, join(<<".", " ">>, cur)
                                                                   \o <<".">>),
                                     !.current_chunk = <<>>, !.i = f.i + 1],
                        "sentences_loop")
              ELSE Goto(t, [f EXCEPT !.current_chunk = cur, !.i = f.i + 1],
                        "sentences_loop")
        /\ Step(t)

\* chunk_by_sentences, lines 213-218
SentencesExit ==
    \E t \in Threads :
        /\ pc[t] = "sentences_loop"
        /\ LET f == locals[Frame(t)] IN
           /\ f.i > Len(f.units)
           /\ Return(t, IF f.current_chunk # <<>>
                        THEN Append(f.chunks, join(<<".", " ">>, f.current_chunk) \o <<".">>)
                        ELSE f.chunks)
        /\ Step(t)

\* chunk_by_paragraphs, lines 231-240
ParagraphsEnter ==
    \E t \in Threads :
        /\ pc[t] = "paragraphs"
        /\ LET f == locals[Frame(t)]
               paragraphs == StripNonEmpty(split(f.document_content, NLNL))
           IN  IF BlankInput(f.document_content) \/ paragraphs = <<>>
               THEN Return(t, <<f.document_content>>)
               ELSE Goto(t, [f EXCEPT !.units = paragraphs, !.i = 1,
                                      !.chunks = <<>>, !.current_chunk = <<>>],
                         "paragraphs_loop")
        /\ Step(t)

\* chunk_by_paragraphs, lines 242-248: one paragraph
ParagraphsParagraph ==
    \E t \in Threads :
        /\ pc[t] = "paragraphs_loop"
        /\ LET f == locals[Frame(t)] IN
           /\ f.i <= Len(f.units)
           /\ LET cur == Append(f.current_chunk, f.units[f.i]) IN
              IF Len(cur) >= f.max_n
              THEN Goto(t, [f EXCEPT !.chunks = Append(f.chunks, join(NLNL, cur)),
                                     !.current_chunk = <<>>, !.i = f.i + 1],
                        "paragraphs_loop")
              ELSE Goto(t, [f EXCEPT !.current_chunk = cur, !.i = f.i + 1],
                        "paragraphs_loop")
        /\ Step(t)

\* chunk_by_paragraphs, lines 250-255
ParagraphsExit ==
    \E t \in Threads :
        /\ pc[t] = "paragraphs_loop"
        /\ LET f == locals[Frame(t)] IN
           /\ f.i > Len(f.units)
           /\ Return(t, IF f.current_chunk # <<>>
                        THEN Append(f.chunks, join(NLNL, f.current_chunk))
                        ELSE f.chunks)
        /\ Step(t)

NextConcurrent ==
    \/ Dispatch
    \/ HeadingsEnter
    \/ HeadingsLine
    \/ HeadingsExit
    \/ AdvancedEnter
    \/ AdvancedChunk
    \/ AdvancedExit
    \/ SentencesEnter
    \/ SentencesSentence
    \/ SentencesExit
    \/ ParagraphsEnter
    \/ ParagraphsParagraph
    \/ ParagraphsExit

SpecConcurrent == InitConcurrent /\ [][NextConcurrent]_vars

-----------------------------------------------------------------------------
(* EducationalTutorAgent: the workflow of process_request *)

\* process_request, lines 407-423
InitialState ==
    [extracted_text |-> None, intent |-> None, context |-> None,
     evaluation_result |-> None, solution_result |-> None,
     similar_questions |-> None, final_output |-> None,
     error |-> None, processing_complete |-> FALSE]

\* "if state.get('error')": the error is None or a non-empty message
HasError(st) == st.error # None

\* lines 176-193; result is what extract_text_with_validation does
ocr_extraction_node(st, result) ==
    IF result = "raises"
    THEN [st EXCEPT !.error = Some("OCR extraction failed")]
    ELSE [st EXCEPT !.extracted_text = Some("text")]

\* lines 195-217; result is what analyze_intent_with_context does,
\* detected the value of intent_result.get("intent", "solve")
intent_detection_node(st, result, detected) ==
    IF result = "raises"
    THEN [st EXCEPT !.error = Some("Intent detection failed")]
    ELSE [st EXCEPT !.intent = Some(detected)]

\* mutant: without a RAG manager the node records an error
rag_context_retrieval_node_ErrorWhenAbsent(st, ag, retr, retrieved_docs) ==
    IF ag.rag_manager = "present"
    THEN [st EXCEPT !.context =
              Some(get_context_string_with_board(retr, retrieved_docs, Some(ag.board),
                       Some(ag.class_name), Some(ag.subject), 3).context)]
    ELSE [st EXCEPT !.error = Some("RAG context retrieval failed")]

\* lines 219-242; get_context_string_with_board is called with the default
\* top_k = 3 and catches every exception itself, so the except branch of the
\* node (lines 238-240) is never entered from it
rag_context_retrieval_node(st, ag, retr, retrieved_docs) ==
    IF ag.rag_manager = "present"
    THEN [st EXCEPT !.context =
              Some(get_context_string_with_board(retr, retrieved_docs, Some(ag.board),
                       Some(ag.class_name), Some(ag.subject), 3).context)]
    ELSE [st EXCEPT !.context =
              Some(<<"No specific curriculum context available for ">> \o ag.board
                   \o <<" board. Providing general mathematical guidance.">>)]

\* lines 244-263; result is what evaluate_with_context_analysis does
evaluation_node(st, result) ==
    IF result = "raises"
    THEN [st EXCEPT !.error = Some("Solution evaluation failed")]
    ELSE [st EXCEPT !.evaluation_result =
              Some([score |-> Some(8), is_correct |-> Some(TRUE),
                    correct_answer |-> "answer", explanation |-> <<"explanation">>])]

\* lines 265-283; result is what create_step_by_step_solution does
solve_node(st, result) ==
    IF result = "raises"
    THEN [st EXCEPT !.error = Some("Problem solving failed")]
    ELSE [st EXCEPT !.solution_result =
              Some([solution |-> [final_answer |-> "answer",
                                  explanation |-> <<"explanation">>]])]

\* lines 285-308; result is what generate_comprehensive_question_set does
similar_questions_node(st, result) ==
    IF result = "raises"
    THEN [st EXCEPT !.similar_questions =
              Some(<<"Practice more problems like this one!",
                     "Try solving similar exercises.",
                     "Keep practicing to improve your skills.">>)]
    ELSE [st EXCEPT !.similar_questions = Some(<<"question">>)]

\* state.get(key, default): the keys are all in the state from the start, so
\* the value is returned even when it is None
StateGet(st, key) == st[key]

\* the try block of the assembler raises (line 330): solution_result is set
\* and has no "solution"
AssemblerRaises(st) ==
    /\ st.intent = Some("solve")
    /\ st.solution_result # None
    /\ "solution" \notin DOMAIN st.solution_result[1]

\* lines 310-346
final_output_assembler_node(st) ==
    IF AssemblerRaises(st)
    THEN [st EXCEPT !.error = Some("Output assembly failed")]
    ELSE LET base == [intent |-> StateGet(st, "intent"),
                      similar_questions |-> StateGet(st, "similar_questions")]
             final_output ==
                 IF st.intent = Some("evaluation") /\ st.evaluation_result # None
                 THEN [score |-> st.evaluation_result[1].score,
                       is_correct |-> st.evaluation_result[1].is_correct,
                       correct_answer |-> st.evaluation_result[1].correct_answer,
                       explanation |-> st.evaluation_result[1].explanation] @@ base
                 ELSE IF st.intent = Some("solve") /\ st.solution_result # None
                      THEN [score |-> None, is_correct |-> None,
                            correct_answer |-> st.solution_result[1].solution.final_answer,
                            explanation |-> st.solution_result[1].solution.explanation]
                           @@ base
                      ELSE base
         IN  [st EXCEPT !.final_output = Some(final_output), !.processing_complete = TRUE]

\* lines 348-366
error_handler_node(st) ==
    [st EXCEPT !.final_output =
         Some([intent |-> Some("error"), score |-> None, is_correct |-> None,
               correct_answer |-> "Unable to process request",
               explanation |-> <<"Sorry, I encountered an error: ", st.error[1],
                                 ". Please try again.">>,
               similar_questions |-> Some(<<"Please try uploading the image again",
                                            "Make sure the image is clear and readable",
                                            "Contact support if the problem persists">>)]),
               !.processing_complete = TRUE]

\* mutant: the route after OCR does not look at the error
route_after_ocr_IgnoresError(st) == "intent_detection"

\* lines 368-372 with the edges of lines 135-142
route_after_ocr(st) == IF HasError(st) THEN "error_handler" ELSE "intent_detection"

\* lines 374-378 with the edges of lines 144-151
route_after_intent(st) == IF HasError(st) THEN "error_handler" ELSE "rag_context_retrieval"

\* lines 380-391 with the edges of lines 153-161
route_after_rag(st) ==
    IF HasError(st) THEN "error_handler"
    ELSE IF st.intent = Some("evaluation") THEN "evaluation"
    ELSE "solve"

\* lines 435-442: result.get("final_output", default); the key is always in
\* the state, so its value is returned
ReturnValue(st) == st.final_output

AgentConfigs ==
    {[board |-> <<"a">>, class_name |-> <<"a">>, subject |-> <<"a">>],
     [board |-> <<"B">>, class_name |-> <<"A">>, subject |-> <<"b">>]}

\* what detect_intent returns (intent_utils.py lines 60-75)
Intents == {"evaluation", "solve"}

\* __init__ and _initialize_rag_manager, lines 57-111: the RAG manager is
\* absent, or present with or without a retriever
InitTutor ==
    /\ agent \in {[rag_manager |-> m, board |-> c.board, class_name |-> c.class_name,
                   subject |-> c.subject] : m \in {"absent", "present"}, c \in AgentConfigs}
    /\ IF agent.rag_manager = "present"
       THEN /\ retriever \in {"none", "ok", "raises"}
            /\ index_docs \in UNION {ContextListsOfLen(n) : n \in 0..1}
       ELSE /\ retriever = "none"
            /\ index_docs = <<>>
    /\ board_filter = None
    /\ class_filter = None
    /\ subject_filter = None
    /\ top_k = 0
    /\ docs = <<>>
    /\ outcome = "idle"
    /\ index_queried = FALSE
    /\ context = <<>>
    /\ advanced_docs = <<>>
    /\ state = <<>>
    /\ node = "idle"
    /\ visited = <<>>
    /\ returned = <<>>
    /\ at_breakpoint = FALSE
    /\ InitChunkIdle
    /\ InitNoThreads

\* a node has run: the state it returns, and the node the graph runs next
Ran(name, st, next) ==
    /\ state' = st
    /\ node' = next
    /\ visited' = Append(visited, name)
    /\ UNCHANGED <<agent, returned, at_breakpoint>>
    /\ UNCHANGED chunkVars
    /\ UNCHANGED concVars

\* process_request, lines 404-428: the graph is invoked on the initial state
ProcessRequest ==
    /\ node = "idle"
    /\ returned = <<>>
    /\ state' = InitialState
    /\ node' = "ocr_extraction"
    /\ UNCHANGED <<agent, visited, returned, at_breakpoint>>
    /\ UNCHANGED <<chunkVars, ragVars, concVars>>

OcrExtraction ==
    /\ node = "ocr_extraction"
    /\ \E o \in {"ok", "raises"} :
        LET st == ocr_extraction_node(state, o)
        IN  Ran("ocr_extraction", st, route_after_ocr(st))
    /\ UNCHANGED ragVars

IntentDetection ==
    /\ node = "intent_detection"
    /\ \E o \in {"ok", "raises"}, i \in Intents :
        LET st == intent_detection_node(state, o, i)
        IN  Ran("intent_detection", st, route_after_intent(st))
    /\ UNCHANGED ragVars

RagContextRetrieval ==
    /\ node = "rag_context_retrieval"
    /\ LET st == rag_context_retrieval_node(state, agent, retriever, index_docs)
       IN  Ran("rag_context_retrieval", st, route_after_rag(st))
    /\ IF agent.rag_manager = "present"
       THEN LET r == get_context_string_with_board(retriever, index_docs, Some(agent.board),
                         Some(agent.class_name), Some(agent.subject), 3)
            IN  /\ board_filter' = Some(agent.board)
                /\ class_filter' = Some(agent.class_name)
                /\ subject_filter' = Some(agent.subject)
                /\ top_k' = 3
                /\ docs' = r.docs
                /\ outcome' = r.outcome
                /\ index_queried' = r.index_queried
                /\ context' = r.context
                /\ UNCHANGED <<retriever, index_docs, advanced_docs>>
       ELSE UNCHANGED ragVars

Evaluation ==
    /\ node = "evaluation"
    /\ \E o \in {"ok", "raises"} :
        Ran("evaluation", evaluation_node(state, o), "similar_question_gen")
    /\ UNCHANGED ragVars

\* the solve node calls create_step_by_step_solution, whose first statement
\* is pdb.set_trace() (solve_utils.py line 272): the run stops in the debugger
Solve ==
    /\ node = "solve"
    /\ ~at_breakpoint
    /\ at_breakpoint' = TRUE
    /\ UNCHANGED <<agent, state, node, visited, returned>>
    /\ UNCHANGED <<chunkVars, ragVars, concVars>>

\* somebody at the debugger lets the call go on, or ends it: the call returns
\* or raises, and the node finishes
DebuggerResume ==
    /\ node = "solve"
    /\ at_breakpoint
    /\ \E o \in {"ok", "raises"} :
        /\ state' = solve_node(state, o)
        /\ node' = "similar_question_gen"
        /\ visited' = Append(visited, "solve")
    /\ at_breakpoint' = FALSE
    /\ UNCHANGED <<agent, returned>>
    /\ UNCHANGED <<chunkVars, ragVars, concVars>>

SimilarQuestionGen ==
    /\ node = "similar_question_gen"
    /\ \E o \in {"ok", "raises"} :
        Ran("similar_question_gen", similar_questions_node(state, o),
            "final_output_assembler")
    /\ UNCHANGED ragVars

FinalOutputAssembler ==
    /\ node = "final_output_assembler"
    /\ Ran("final_output_assembler", final_output_assembler_node(state), "END")
    /\ UNCHANGED ragVars

ErrorHandler ==
    /\ node = "error_handler"
    /\ Ran("error_handler", error_handler_node(state), "END")
    /\ UNCHANGED ragVars

\* process_request, lines 430-438: the graph has ended
ProcessRequestReturn ==
    /\ node = "END"
    /\ returned = <<>>
    /\ returned' = <<ReturnValue(state)>>
    /\ UNCHANGED <<agent, state, node, visited, at_breakpoint>>
    /\ UNCHANGED <<chunkVars, ragVars, concVars>>

NextTutor ==
    \/ ProcessRequest
    \/ OcrExtraction
    \/ IntentDetection
    \/ RagContextRetrieval
    \/ Evaluation
    \/ Solve
    \/ DebuggerResume
    \/ SimilarQuestionGen
    \/ FinalOutputAssembler
    \/ ErrorHandler
    \/ ProcessRequestReturn

SpecTutor == InitTutor /\ [][NextTutor]_vars

\* every step of the program is taken when it can be; nothing makes the
\* debugger go on
SpecTutorLive ==
    /\ SpecTutor
    /\ WF_vars(ProcessRequest)
    /\ WF_vars(OcrExtraction)
    /\ WF_vars(IntentDetection)
    /\ WF_vars(RagContextRetrieval)
    /\ WF_vars(Evaluation)
    /\ WF_vars(Solve)
    /\ WF_vars(SimilarQuestionGen)
    /\ WF_vars(FinalOutputAssembler)
    /\ WF_vars(ErrorHandler)
    /\ WF_vars(ProcessRequestReturn)

-----------------------------------------------------------------------------
(* C15 *)

\* the segments chunk_by_headings produces for the text
Segments == chunk_by_headings(content)

\* the number of chunks returned for the segments before segment i + 1
Offset(i) ==
    LET off[k \in 0..Len(splits)] ==
            IF k = 0 THEN 0 ELSE off[k - 1] + Len(splits[k].sub_chunks)
    IN  off[i]

\* the chunks returned for segment i
ChunksOf(i) == SubSeq(chunks, Offset(i - 1) + 1, Offset(i))

Infix(w, text) == \E k \in 1..Len(text) : MatchAt(text, w, k)

\* C15: when every segment of chunk_by_headings fits max_chunk_size,
\* chunk_by_headings_advanced returns exactly those segments; in general the
\* result is, segment after segment, the chunks of that segment alone: a
\* segment that fits is returned unchanged, and the chunks of a segment that
\* does not fit hold words of that segment only.
C15_PassThrough ==
    Called("chunk_by_headings_advanced") =>
        /\ (\A i \in 1..Len(Segments) : Len(Segments[i]) <= max_size) => chunks = Segments
        /\ NonBlank(content) =>
              /\ Len(splits) = Len(Segments)
              /\ Len(chunks) = Offset(Len(splits))
              /\ \A i \in 1..Len(Segments) :
                    /\ Len(Segments[i]) <= max_size => ChunksOf(i) = <<Segments[i]>>
                    /\ ChunksOf(i) # <<>>
                    /\ \A k \in 1..Len(ChunksOf(i)) :
                          \A w \in WordSet(ChunksOf(i)[k]) : Infix(w, Segments[i])

C15_Witness ==
    /\ Called("chunk_by_headings_advanced")
    /\ Len(Segments) = 2
    /\ Len(Segments[1]) <= max_size
    /\ Len(Segments[2]) > max_size
    /\ Len(chunks) = 3
    /\ chunks[1] = Segments[1]

-----------------------------------------------------------------------------
(* C16, C17, C18 *)

\* the words of the input longer than max_chunk_size
LongWords == {w \in WordSet(content) : Len(w) > max_size}

\* C16: every whitespace-delimited word of the text given to
\* chunk_by_headings_advanced is a whitespace-delimited word of at least one
\* returned chunk, for every max_chunk_size and overlap_size.
C16_NoWordDropped ==
    Called("chunk_by_headings_advanced") =>
        \A w \in WordSet(content) : \E i \in 1..Len(chunks) : w \in WordSet(chunks[i])

\* a call with overlap that flushed at paragraph level and met a long word
C16_Witness ==
    /\ Called("chunk_by_headings_advanced")
    /\ LongWords # {}
    /\ overlap > 0
    /\ \E r \in DOMAIN splits : splits[r].flushes # <<>>
    /\ Len(chunks) >= 2
    /\ \A w \in WordSet(content) : \E i \in 1..Len(chunks) : w \in WordSet(chunks[i])

\* C17: a word of the text longer than max_chunk_size is returned by
\* chunk_by_headings_advanced whole and as a chunk of its own.
C17_LongWordOwnChunk ==
    (Called("chunk_by_headings_advanced") /\ NonBlank(content)) =>
        \A w \in LongWords : \E i \in 1..Len(chunks) : chunks[i] = w

\* C18: each of the four strategies returns at least one chunk for every text.
C18_AtLeastOneChunk ==
    fn \in DirectStrategyCalls => Len(chunks) >= 1

-----------------------------------------------------------------------------
(* C19 *)

\* what the call of thread t returns when it runs alone
Alone(t) == chunk_educational_content(calls[t].document, calls[t].strategy, calls[t].kwargs)

\* C19: in every interleaving of chunk_educational_content calls on one
\* DocumentChunker each call returns what it returns when run alone, and no
\* step changes a field of the chunker or the arguments of a call.
C19_Isolation ==
    /\ [](\A t \in DOMAIN pc : pc[t] = "done" => results[t] = Alone(t))
    /\ [][chunker' = chunker /\ calls' = calls]_vars

\* two different calls have run interleaved and both have returned
C19_Witness ==
    /\ interleaved
    /\ \A t \in Threads : pc[t] = "done" /\ Len(results[t]) >= 2
    /\ results[1] # results[2]
    /\ calls[1].strategy = "advanced"
    /\ calls[2].strategy = "sentences"

-----------------------------------------------------------------------------
(* C20 *)

\* the lines of the text before its first heading line, joined again
Preamble(text) ==
    LET lines == split(text, NL)
        first == Least({i \in 1..Len(lines) : MarkedLine(lines[i])})
    IN  join(NL, SubSeq(lines, 1, first - 1))

\* the heading lines among the lines of a chunk
HeadingsIn(chunk) == HeadingLines(chunk, MarkedLine)

-----------------------------------------------------------------------------
(* C21 *)

\* the line, trimmed, starts with '#' and is longer than one character
HashLine(line) ==
    LET t == strip(line) IN Len(t) > 1 /\ t[1] = "#"

\* the line, trimmed, is a single '#'
BareHash(line) == strip(line) = <<"#">>

\* positions of the lines of the text that satisfy P
LinesWhere(text, P(_)) == {i \in 1..Len(split(text, NL)) : P(split(text, NL)[i])}

\* the lines of the text from line a to line b, joined again and trimmed
Stretch(text, a, b) == strip(join(NL, SubSeq(split(text, NL), a, b)))

-----------------------------------------------------------------------------
(* C22 *)

\* the whitespace-delimited words of a string, in order
WordSeq(s) ==
    [k \in 1..Cardinality(WordStarts(s)) |->
        SubSeq(s, Nth(WordStarts(s), k), Nth(WordEnds(s), k))]

\* the words of the pieces, piece after piece
RECURSIVE ConcatWords(_)
ConcatWords(pieces) ==
    IF pieces = <<>> THEN <<>> ELSE WordSeq(Head(pieces)) \o ConcatWords(Tail(pieces))

\* the paragraphs of the call that were packed word by word
WordPacks == {<<r, p>> \in (DOMAIN splits) \X (1..(MaxLen + 1)) : p \in DOMAIN splits[r].packs}

\* the sub-chunks the word loop emitted for the paragraph
PackEmitted(r, p) ==
    SubSeq(splits[r].sub_chunks, splits[r].packs[p].first, splits[r].packs[p].last)

IsPrefix(a, b) == Len(a) <= Len(b) /\ SubSeq(b, 1, Len(a)) = a

\* C22: the sub-chunks the word loop of _split_large_chunk emits for a
\* paragraph, followed by the words it leaves in the buffer, hold the words
\* of the paragraph once each and in order, whatever overlap_size is; the
\* words left in the buffer open the next sub-chunk.
C22_WordPackNoOverlap ==
    Called("chunk_by_headings_advanced") =>
        \A x \in WordPacks :
            LET r == x[1]
                pack == splits[r].packs[x[2]]
            IN  /\ ConcatWords(PackEmitted(r, x[2]) \o <<pack.rest>>) = WordSeq(pack.para)
                /\ WordSeq(pack.rest) # <<>> =>
                      /\ pack.last + 1 <= Len(splits[r].sub_chunks)
                      /\ IsPrefix(WordSeq(pack.rest),
                                  WordSeq(splits[r].sub_chunks[pack.last + 1]))

\* a paragraph packed into two sub-chunks and a rest, with overlap asked for
C22_Witness ==
    /\ Called("chunk_by_headings_advanced")
    /\ overlap > 0
    /\ \E x \in WordPacks :
          /\ Len(PackEmitted(x[1], x[2])) >= 2
          /\ splits[x[1]].packs[x[2]].rest # <<>>
          /\ Len(chunks) >= 3

-----------------------------------------------------------------------------
(* C23 *)

\* the first heading line of the chunk, by the test chunk_by_headings applies,
\* trimmed; <<>> when the chunk has no heading line
FirstHeading(chunk) ==
    IF HeadingsIn(chunk) = <<>> THEN <<>> ELSE <<strip(HeadingsIn(chunk)[1])>>

\* C23: get_chunk_info returns one ChunkInfo per chunk, in order, with the
\* zero-based position, the length of the list, the chunk, its length, the
\* number of its words, and as heading the first line of the chunk that
\* chunk_by_headings takes for a heading line, or none.
C23_ChunkInfo ==
    chunk_infos # <<>> =>
        LET infos == chunk_infos[1] IN
        /\ Len(infos) = Len(chunks)
        /\ \A k \in 1..Len(chunks) :
              /\ infos[k].chunk_index = k - 1
              /\ infos[k].total_chunks = Len(chunks)
              /\ infos[k].content = chunks[k]
              /\ infos[k].char_count = Len(chunks[k])
              /\ infos[k].word_count = Len(WordSeq(chunks[k]))
              /\ infos[k].heading = FirstHeading(chunks[k])

-----------------------------------------------------------------------------
(* C24 *)

HasRun(name) == \E k \in 1..Len(visited) : visited[k] = name

\* C24: the rag_context_retrieval node never fails the request.  Whatever the
\* RAG manager is (absent, without a retriever, with a retriever that raises
\* or one that answers), the step of the node leaves no error in the state and
\* a non-empty context string, and hands over to evaluation or solve; once the
\* node has run, the error handler never runs.
C24_RagFailureTolerated ==
    /\ [][RagContextRetrieval =>
            /\ state'.error = None
            /\ state'.context # None
            /\ state'.context[1] # <<>>
            /\ node' \in {"evaluation", "solve"}]_vars
    /\ [](HasRun("rag_context_retrieval") => ~HasRun("error_handler"))

\* the retriever raised inside the node, and the run has gone on to the end
C24_Witness ==
    /\ agent # <<>>
    /\ agent.rag_manager = "present"
    /\ retriever = "raises"
    /\ HasRun("rag_context_retrieval")
    /\ index_queried
    /\ docs = <<>>
    /\ state.context # None
    /\ returned # <<>>

-----------------------------------------------------------------------------
(* C25 *)

\* C25: every chunk chunk_by_headings returns for a non-blank text is a fixed
\* point of chunk_by_headings: splitting the chunk again returns the chunk
\* alone.  The chunk is trimmed and non-empty, and no line of it after the
\* first is a heading line.
C25_ChunksAreFixedPoints ==
    (Called("chunk_by_headings") /\ ~BlankInput(content)) =>
        \A k \in 1..Len(chunks) :
            LET lines == split(chunks[k], NL) IN
            /\ chunk_by_headings(chunks[k]) = <<chunks[k]>>
            /\ chunks[k] # <<>>
            /\ strip(chunks[k]) = chunks[k]
            /\ \A j \in 2..Len(lines) : ~IsHeadingLine(lines[j])

\* a text split into several chunks, one of them with a line after its
\* heading line
C25_Witness ==
    /\ Called("chunk_by_headings")
    /\ ~BlankInput(content)
    /\ Len(chunks) >= 2
    /\ \E k \in 1..Len(chunks) : /\ IsHeadingLine(split(chunks[k], NL)[1])
                                 /\ Len(split(chunks[k], NL)) >= 2

-----------------------------------------------------------------------------
(* C26 *)

\* C26: for a text with at least one non-whitespace character, every
\* max_chunk_size >= 1 and every overlap_size >= 0, no chunk
\* chunk_by_headings_advanced returns is empty or made of whitespace only.
C26_NoBlankChunk ==
    (Called("chunk_by_headings_advanced") /\ NonBlank(content)
        /\ max_size >= 1 /\ overlap >= 0) =>
        \A k \in 1..Len(chunks) : NonBlank(chunks[k])

-----------------------------------------------------------------------------
(* C27 *)

\* every filter that is given has a non-empty value
FiltersNonEmpty ==
    \A f \in {board_filter, class_filter, subject_filter} : f # None => f[1] # <<>>

\* C27: for the same candidates, the same top_k and the same filters over
\* board, class and subject, each absent or with a non-empty value,
\* retrieve_context_advanced_filter returns the documents
\* retrieve_context_by_board returns, in the same order; candidates without
\* one of the metadata fields included.
C27_EntryPointsAgree ==
    (advanced_docs # <<>> /\ FiltersNonEmpty) => advanced_docs[1] = docs

\* both calls kept a candidate and dropped one that lacks a filtered field
C27_Witness ==
    /\ advanced_docs # <<>>
    /\ FiltersNonEmpty
    /\ board_filter # None
    /\ subject_filter # None
    /\ Len(advanced_docs[1]) = 1
    /\ Len(index_docs) = 2
    /\ \E k \in 1..2 : "subject" \notin DOMAIN index_docs[k].metadata
    /\ advanced_docs[1] = docs

-----------------------------------------------------------------------------
(* C28 *)

\* process_request has returned a dict with the keys intent and
\* similar_questions
ReturnedResult ==
    /\ returned # <<>>
    /\ returned[1] # None
    /\ {"intent", "similar_questions"} \subseteq DOMAIN returned[1][1]

\* C28: every run of process_request comes to an end and returns a dict with
\* the keys intent and similar_questions, whichever nodes succeed or fail; it
\* never returns None.
C28_TerminatesWithResult ==
    /\ [](returned # <<>> => ReturnedResult)
    /\ <>ReturnedResult

-----------------------------------------------------------------------------
(* C29 *)

\* C29: when a node has recorded an error in the state, the final output of
\* the run has intent "error"; a final output with intent "evaluation" or
\* "solve" comes from a run with no error in its state.
C29_ErrorMeansErrorOutput ==
    (returned # <<>> /\ returned[1] # None) =>
        LET final_output == returned[1][1] IN
        /\ HasError(state) => final_output.intent = Some("error")
        /\ final_output.intent \in {Some("evaluation"), Some("solve")} => ~HasError(state)

-----------------------------------------------------------------------------
(* C30 *)

\* the complete runs of the workflow
Paths ==
    {<<"ocr_extraction", "error_handler">>,
     <<"ocr_extraction", "intent_detection", "error_handler">>}
    \cup {<<"ocr_extraction", "intent_detection", "rag_context_retrieval", branch,
            "similar_question_gen", "final_output_assembler">> :
          branch \in {"evaluation", "solve"}}

\* C30: the nodes run in the fixed order OCR, intent detection, RAG
\* retrieval, one of evaluation and solve, similar-question generation, final
\* assembly.  After the RAG node evaluation is next iff the detected intent is
\* "evaluation", and solve is next otherwise.  When OCR or intent detection
\* has recorded an error the error handler is next, and after it nothing runs.
C30_FixedOrder ==
    node # "idle" =>
        /\ \E path \in Paths : IsPrefix(visited, path)
        /\ node = "END" => visited \in Paths
        /\ (visited # <<>> /\ visited[Len(visited)] = "rag_context_retrieval") =>
              node = IF state.intent = Some("evaluation") THEN "evaluation" ELSE "solve"
        /\ HasRun("evaluation") => state.intent = Some("evaluation") /\ ~HasRun("solve")
        /\ HasRun("solve") => state.intent # Some("evaluation") /\ ~HasRun("evaluation")
        /\ (visited # <<>> /\ visited[Len(visited)] \in {"ocr_extraction", "intent_detection"}) =>
              (HasError(state) <=> node = "error_handler")

\* a run through evaluation has returned
C30_Witness ==
    /\ returned # <<>>
    /\ visited = <<"ocr_extraction", "intent_detection", "rag_context_retrieval",
                   "evaluation", "similar_question_gen", "final_output_assembler">>
    /\ state.intent = Some("evaluation")

====
